---- MODULE Spec2Model ----
(***************************************************************************)
(* A model of the Solidity TRAP extractor: the label generator             *)
(* (trap/label.rs), the TRAP writer (trap/writer.rs), the tree extractor   *)
(* (extraction/extractor.rs) and the extraction driver (extraction/mod.rs).*)
(*                                                                         *)
(* Strings are sequences of one-character strings.  A fixed literal of the *)
(* program (a table name, the header comment) and a run of lower-case      *)
(* letters and underscores inside an identifier are kept as one atom.      *)
(***************************************************************************)
EXTENDS Integers, Sequences, FiniteSets, TLC

VARIABLES
    writer,     \* SpecWriter: one TrapWriter
    returned,   \* SpecWriter: labels the writer's operations have returned
    last,       \* SpecWriter: the last operation, its argument and result
    gen,        \* SpecAlloc: one LabelGenerator shared by several threads
    thr,        \* SpecAlloc: each thread's position inside fresh()
    issued,     \* SpecAlloc: the labels fresh() has returned, in return order
    keys,       \* SpecKey: two contents, the allocator, and their key labels
    job,        \* SpecExtract: each extractor's file path and syntax tree
    ext,        \* SpecExtract: the extractors, each with its own writer
    run,        \* SpecRun, SpecTally: the driver and its units of work
    esc,        \* SpecEscape: a string value, its escaped form, and that decoded
    names,      \* SpecNames: a kind, a field, and the table names made of them
    auto        \* SpecAuto: autobuild, the tree it walks and the directories

wvars == <<writer, returned, last>>
avars == <<gen, thr, issued>>
kvars == <<keys>>
evars == <<job, ext>>
rvars == <<run>>
svars == <<esc>>
nvars == <<names>>
bvars == <<auto>>
vars == <<writer, returned, last, gen, thr, issued, keys, job, ext, run, esc, names, auto>>

(***************************************************************************)
(* Bounds of the model.                                                    *)
(***************************************************************************)
MaxOps == 4         \* operations applied to one writer
NThreads == 2       \* threads calling fresh() on one allocator
MaxFresh == 4       \* calls of fresh() on the shared allocator
MaxKeyLen == 2      \* length of a key content
MaxStrLen == 3      \* length of a string value
MaxLines == 2       \* lines of the file list
MaxTally == 10      \* results tallied by a run that starts at its tally
MaxNameLen == 2     \* length of a kind name and of a field name
CoordBits == 4      \* bits of the coordinate type that stands for u32

(***************************************************************************)
(* Characters and numbers as text.                                         *)
(***************************************************************************)
QUOTE == "\""
BACKSLASH == "\\"
NEWLINE == "\n"
CR == "\r"
TAB == "\t"
NUL == "U+0000"     \* the character U+0000
SOH == "U+0001"     \* the character U+0001

\* char::is_control: the Unicode class Cc (U+0000..U+001F, U+007F..U+009F)
is_control(c) == c \in {NUL, SOH, NEWLINE, CR, TAB}

\* c as u32, for the control characters of the model
CodePoint(c) ==
    CASE c = NUL -> 0
      [] c = SOH -> 1
      [] c = TAB -> 9
      [] c = NEWLINE -> 10
      [] c = CR -> 13

HexDigit(d) == <<"0", "1", "2", "3", "4", "5", "6", "7", "8", "9",
                 "a", "b", "c", "d", "e", "f">>[d + 1]

\* format!("{:02x}", n) for n < 256
Hex02(n) == <<HexDigit(n \div 16), HexDigit(n % 16)>>

DecDigit(d) == <<"0", "1", "2", "3", "4", "5", "6", "7", "8", "9">>[d + 1]

RECURSIVE Decimal(_)
\* u64::to_string
Decimal(n) == IF n < 10 THEN <<DecDigit(n)>>
              ELSE Decimal(n \div 10) \o <<DecDigit(n % 10)>>

IsDecDigit(c) == c \in {"0", "1", "2", "3", "4", "5", "6", "7", "8", "9"}

(***************************************************************************)
(* trap/label.rs                                                           *)
(***************************************************************************)
FreshOffset == 10000

\* Label::fresh: "#" followed by 10000 + id
Label_fresh_noOffset(id) == <<"#">> \o Decimal(id)
Label_fresh(id) == <<"#">> \o Decimal(FreshOffset + id)

Label_escape_char_rawBackslash(c) ==
    CASE c = QUOTE -> <<BACKSLASH, QUOTE>>
      [] c = NEWLINE -> <<BACKSLASH, "n">>
      [] c = CR -> <<BACKSLASH, "r">>
      [] c = TAB -> <<BACKSLASH, "t">>
      [] OTHER -> IF is_control(c) THEN <<BACKSLASH, "x">> \o Hex02(CodePoint(c))
                  ELSE <<c>>
Label_escape_char(c) ==
    CASE c = QUOTE -> <<BACKSLASH, QUOTE>>
      [] c = BACKSLASH -> <<BACKSLASH, BACKSLASH>>
      [] c = NEWLINE -> <<BACKSLASH, "n">>
      [] c = CR -> <<BACKSLASH, "r">>
      [] c = TAB -> <<BACKSLASH, "t">>
      [] OTHER -> IF is_control(c) THEN <<BACKSLASH, "x">> \o Hex02(CodePoint(c))
                  ELSE <<c>>

RECURSIVE Label_escape_string(_)
\* Label::escape_string (the key-label escaping)
Label_escape_string(s) ==
    IF s = <<>> THEN <<>>
    ELSE Label_escape_char(Head(s)) \o Label_escape_string(Tail(s))

\* Label::key: @"<escaped content>"
Label_key(content) == <<"@", QUOTE>> \o Label_escape_string(content) \o <<QUOTE>>

\* LabelGenerator::new: the counter starts at 0
LabelGenerator_new == [counter |-> 0]

\* AtomicU64::fetch_add(1): the value before, and the counter after
fetch_add_noIncrement(counter) == [old |-> counter, new |-> counter]
fetch_add(counter) == [old |-> counter, new |-> counter + 1]

\* LabelGenerator::fresh
LabelGenerator_fresh(g) ==
    LET fa == fetch_add(g.counter)
    IN  [gen |-> [g EXCEPT !.counter = fa.new], label |-> Label_fresh(fa.old)]

\* LabelGenerator::key
LabelGenerator_key_counting(g, content) ==
    [gen |-> [g EXCEPT !.counter = @ + 1], label |-> Label_key(content)]
LabelGenerator_key(g, content) == [gen |-> g, label |-> Label_key(content)]

(***************************************************************************)
(* trap/writer.rs: values, entries, label definitions                      *)
(***************************************************************************)
V_Label(l) == [tag |-> "Label", label |-> l, str |-> <<>>, num |-> 0]
V_String(s) == [tag |-> "String", label |-> <<>>, str |-> s, num |-> 0]
V_UInt(n) == [tag |-> "UInt", label |-> <<>>, str |-> <<>>, num |-> n]

TrapValue_escape_char_rawBackslash(c) ==
    CASE c = QUOTE -> <<QUOTE, QUOTE>>
      [] c = NEWLINE -> <<BACKSLASH, "n">>
      [] c = CR -> <<BACKSLASH, "r">>
      [] c = TAB -> <<BACKSLASH, "t">>
      [] c = NUL -> <<BACKSLASH, "0">>
      [] OTHER -> IF is_control(c) THEN <<BACKSLASH, "x">> \o Hex02(CodePoint(c))
                  ELSE <<c>>
TrapValue_escape_char(c) ==
    CASE c = QUOTE -> <<QUOTE, QUOTE>>
      [] c = BACKSLASH -> <<BACKSLASH, BACKSLASH>>
      [] c = NEWLINE -> <<BACKSLASH, "n">>
      [] c = CR -> <<BACKSLASH, "r">>
      [] c = TAB -> <<BACKSLASH, "t">>
      [] c = NUL -> <<BACKSLASH, "0">>
      [] OTHER -> IF is_control(c) THEN <<BACKSLASH, "x">> \o Hex02(CodePoint(c))
                  ELSE <<c>>

RECURSIVE TrapValue_escape_string(_)
\* TrapValue::escape_string (the tuple-string escaping)
TrapValue_escape_string(s) ==
    IF s = <<>> THEN <<>>
    ELSE TrapValue_escape_char(Head(s)) \o TrapValue_escape_string(Tail(s))

\* TrapValue::format
TrapValue_format(v) ==
    CASE v.tag = "Label" -> v.label
      [] v.tag = "String" -> <<QUOTE>> \o TrapValue_escape_string(v.str) \o <<QUOTE>>
      [] v.tag = "UInt" -> Decimal(v.num)

RECURSIVE JoinValues(_)
\* values.join(", ")
JoinValues(vs) ==
    IF vs = <<>> THEN <<>>
    ELSE IF Len(vs) = 1 THEN TrapValue_format(vs[1])
    ELSE TrapValue_format(vs[1]) \o <<",", " ">> \o JoinValues(Tail(vs))

\* TrapEntry::new
TrapEntry_new(table, values) == [table |-> table, values |-> values]

\* TrapEntry::format: table(value, value, ...)
TrapEntry_format(e) == e.table \o <<"(">> \o JoinValues(e.values) \o <<")">>

LabelDef_Fresh(l) == [tag |-> "Fresh", numeric |-> l, key |-> <<>>]
LabelDef_Key(numeric, key) == [tag |-> "Key", numeric |-> numeric, key |-> key]

\* LabelDef::format: "#n=*" or "#n=@"key""
LabelDef_format(d) ==
    IF d.tag = "Fresh" THEN d.numeric \o <<"=", "*">>
    ELSE d.numeric \o <<"=">> \o d.key

(***************************************************************************)
(* trap/writer.rs: TrapWriter.  Each method is an operator from the writer *)
(* to [w |-> the writer after, label |-> the label returned].              *)
(***************************************************************************)
EmptyCache == [k \in {} |-> <<>>]

\* TrapWriter::new
TrapWriter_new ==
    [labels |-> LabelGenerator_new,
     label_defs |-> <<>>,
     defined_labels |-> {},
     entries |-> <<>>,
     comments |-> <<>>,
     string_cache |-> EmptyCache]

\* TrapWriter::define_fresh_label
define_fresh_label_always(w, label) ==
    [w EXCEPT !.defined_labels = @ \cup {label},
              !.label_defs = Append(@, LabelDef_Fresh(label))]
define_fresh_label(w, label) ==
    IF label \notin w.defined_labels
    THEN [w EXCEPT !.defined_labels = @ \cup {label},
                   !.label_defs = Append(@, LabelDef_Fresh(label))]
    ELSE w

\* TrapWriter::fresh_label
fresh_label_undeclared(w) ==
    LET f == LabelGenerator_fresh(w.labels)
    IN  [w |-> [w EXCEPT !.labels = f.gen], label |-> f.label]
fresh_label(w) ==
    LET f == LabelGenerator_fresh(w.labels)
    IN  [w |-> define_fresh_label([w EXCEPT !.labels = f.gen], f.label),
         label |-> f.label]

\* TrapWriter::define_key_label
define_key_label_noCache(w, key_label) ==
    LET f == LabelGenerator_fresh(w.labels)
    IN  [w |-> [w EXCEPT !.labels = f.gen,
                         !.label_defs = Append(@, LabelDef_Key(f.label, key_label)),
                         !.defined_labels = @ \cup {key_label}],
         label |-> f.label]
define_key_label(w, key_label) ==
    IF key_label \in DOMAIN w.string_cache
    THEN [w |-> w, label |-> w.string_cache[key_label]]
    ELSE LET f == LabelGenerator_fresh(w.labels)
         IN  [w |-> [w EXCEPT !.labels = f.gen,
                              !.label_defs = Append(@, LabelDef_Key(f.label, key_label)),
                              !.defined_labels = @ \cup {key_label},
                              !.string_cache = [k \in (DOMAIN @) \cup {key_label} |->
                                                  IF k = key_label THEN f.label ELSE @[k]]],
              label |-> f.label]

\* TrapWriter::string_label
string_label(w, s) ==
    IF s \in DOMAIN w.string_cache
    THEN [w |-> w, label |-> w.string_cache[s]]
    ELSE LET k == LabelGenerator_key(w.labels, s)
         IN  define_key_label([w EXCEPT !.labels = k.gen], k.label)

\* TrapWriter::comment
comment(w, text) == [w EXCEPT !.comments = Append(@, text)]

\* TrapWriter::emit
emit_prepend(w, table, values) ==
    [w EXCEPT !.entries = <<TrapEntry_new(table, values)>> \o @]
emit(w, table, values) ==
    [w EXCEPT !.entries = Append(@, TrapEntry_new(table, values))]

\* TrapWriter::emit_file
emit_file(w, path) ==
    LET kl == LabelGenerator_key(w.labels, path)
        k == define_key_label([w EXCEPT !.labels = kl.gen], kl.label)
    IN  [w |-> emit(k.w, <<"files">>, <<V_Label(k.label), V_String(path)>>),
         label |-> k.label]

\* TrapWriter::emit_folder
emit_folder(w, path) ==
    LET kl == LabelGenerator_key(w.labels, path)
        k == define_key_label([w EXCEPT !.labels = kl.gen], kl.label)
    IN  [w |-> emit(k.w, <<"folders">>, <<V_Label(k.label), V_String(path)>>),
         label |-> k.label]

\* TrapWriter::emit_location
emit_location(w, file_label, start_line, start_col, end_line, end_col) ==
    LET f == fresh_label(w)
    IN  [w |-> emit(f.w, <<"locations_default">>,
                    <<V_Label(f.label), V_Label(file_label), V_UInt(start_line),
                      V_UInt(start_col), V_UInt(end_line), V_UInt(end_col)>>),
         label |-> f.label]

HeaderLine == <<"// CodeQL TRAP file generated by codeql-extractor-solidity">>
BlankLine == <<>>
LabelDefsLine == <<"// Label definitions">>

\* TrapWriter::format: the text, as its sequence of lines
format_tuplesFirst(w) ==
    <<HeaderLine, BlankLine>>
    \o [i \in 1..Len(w.entries) |-> TrapEntry_format(w.entries[i])]
    \o [i \in 1..Len(w.label_defs) |-> LabelDef_format(w.label_defs[i])]
format(w) ==
    <<HeaderLine, BlankLine>>
    \o [i \in 1..Len(w.comments) |-> <<"// ">> \o w.comments[i]]
    \o (IF w.comments # <<>> THEN <<BlankLine>> ELSE <<>>)
    \o (IF w.label_defs # <<>>
        THEN <<LabelDefsLine>>
             \o [i \in 1..Len(w.label_defs) |-> LabelDef_format(w.label_defs[i])]
             \o <<BlankLine>>
        ELSE <<>>)
    \o [i \in 1..Len(w.entries) |-> TrapEntry_format(w.entries[i])]

(***************************************************************************)
(* SpecWriter: one TrapWriter driven by any sequence of its operations.    *)
(***************************************************************************)
PathA == <<"/", "a">>
KeyTextA == <<"@", QUOTE, "/", "a", QUOTE>>   \* the text @"/a"
WContents == {PathA, KeyTextA}
CommentTexts == {<<"c">>}

Op(op, arg, label, n) == [op |-> op, arg |-> arg, label |-> label, n |-> n]
WriterOff == Op("off", <<>>, <<>>, 0)

\* a call that returns a label
Returns(r, op, arg) ==
    /\ last.op # "off"
    /\ last.n < MaxOps
    /\ writer' = r.w
    /\ returned' = returned \cup {r.label}
    /\ last' = Op(op, arg, r.label, last.n + 1)

\* a call that returns nothing
Does(w, op, arg) ==
    /\ last.op # "off"
    /\ last.n < MaxOps
    /\ writer' = w
    /\ returned' = returned
    /\ last' = Op(op, arg, <<>>, last.n + 1)

WFreshLabel == Returns(fresh_label(writer), "fresh_label", <<>>)

WEmitFile == \E c \in WContents : Returns(emit_file(writer, c), "emit_file", c)

WEmitFolder == \E c \in WContents : Returns(emit_folder(writer, c), "emit_folder", c)

WStringLabel == \E c \in WContents : Returns(string_label(writer, c), "string_label", c)

\* emit_location for a file label this writer has returned
WEmitLocation ==
    \E fl \in {writer.string_cache[k] : k \in DOMAIN writer.string_cache} :
        Returns(emit_location(writer, fl, 1, 1, 1, 10), "emit_location", fl)

\* emit with values that reference only labels this writer has returned
WEmit ==
    \E l \in returned :
        Does(emit(writer, <<"t">>, <<V_Label(l), V_UInt(7), V_String(PathA)>>), "emit", <<>>)

WComment == \E t \in CommentTexts : Does(comment(writer, t), "comment", t)

\* define_fresh_label called again for a label that fresh_label has declared
WDefineFreshAgain ==
    \E l \in {d.numeric : d \in {writer.label_defs[i] : i \in DOMAIN writer.label_defs}} :
        /\ l \in writer.defined_labels
        /\ Does(define_fresh_label(writer, l), "define_fresh_label", l)

NextWriter ==
    \/ WFreshLabel /\ UNCHANGED <<avars, kvars, evars, rvars, svars, nvars, bvars>>
    \/ WEmitFile /\ UNCHANGED <<avars, kvars, evars, rvars, svars, nvars, bvars>>
    \/ WEmitFolder /\ UNCHANGED <<avars, kvars, evars, rvars, svars, nvars, bvars>>
    \/ WStringLabel /\ UNCHANGED <<avars, kvars, evars, rvars, svars, nvars, bvars>>
    \/ WEmitLocation /\ UNCHANGED <<avars, kvars, evars, rvars, svars, nvars, bvars>>
    \/ WEmit /\ UNCHANGED <<avars, kvars, evars, rvars, svars, nvars, bvars>>
    \/ WComment /\ UNCHANGED <<avars, kvars, evars, rvars, svars, nvars, bvars>>
    \/ WDefineFreshAgain /\ UNCHANGED <<avars, kvars, evars, rvars, svars, nvars, bvars>>

(***************************************************************************)
(* SpecAlloc: several threads call fresh() on one LabelGenerator.  fresh() *)
(* is an atomic fetch_add followed by the formatting of the label.         *)
(***************************************************************************)
Threads == 1..NThreads

\* let id = self.counter.fetch_add(1, Ordering::SeqCst)
AFetchAdd(t) ==
    /\ thr[t].pc = "idle"
    /\ gen.counter < MaxFresh
    /\ LET fa == fetch_add(gen.counter)
       IN  /\ gen' = [gen EXCEPT !.counter = fa.new]
           /\ thr' = [thr EXCEPT ![t] = [pc |-> "fetched", id |-> fa.old]]
    /\ UNCHANGED issued

\* Label::fresh(&self.prefix, id), returned to the caller
ALabelFresh(t) ==
    /\ thr[t].pc = "fetched"
    /\ issued' = Append(issued, [t |-> t, label |-> Label_fresh(thr[t].id)])
    /\ thr' = [thr EXCEPT ![t] = [pc |-> "idle", id |-> 0]]
    /\ UNCHANGED gen

NextAlloc ==
    \/ \E t \in Threads :
          AFetchAdd(t) /\ UNCHANGED <<wvars, kvars, evars, rvars, svars, nvars, bvars>>
    \/ \E t \in Threads :
          ALabelFresh(t) /\ UNCHANGED <<wvars, kvars, evars, rvars, svars, nvars, bvars>>

(***************************************************************************)
(* SpecKey: key() applied to two contents on one allocator.                *)
(***************************************************************************)
KeyAlphabet == {"n", QUOTE, BACKSLASH, NEWLINE, SOH}
KeyStrings == UNION {[1..n -> KeyAlphabet] : n \in 0..MaxKeyLen}

\* the inputs of the two calls; no call is made when the component is off
KeyInputs(on) == IF on THEN KeyStrings ELSE {<<>>}

\* the first call: key(c1)
KeyFirst ==
    /\ keys.pc = 0
    /\ LET r == LabelGenerator_key(keys.gen, keys.c1)
       IN  keys' = [keys EXCEPT !.pc = 1, !.gen = r.gen, !.k1 = r.label]

\* the second call: key(c2)
KeySecond ==
    /\ keys.pc = 1
    /\ LET r == LabelGenerator_key(keys.gen, keys.c2)
       IN  keys' = [keys EXCEPT !.pc = 2, !.gen = r.gen, !.k2 = r.label]

NextKey ==
    \/ KeyFirst /\ UNCHANGED <<wvars, avars, evars, rvars, svars, nvars, bvars>>
    \/ KeySecond /\ UNCHANGED <<wvars, avars, evars, rvars, svars, nvars, bvars>>

(***************************************************************************)
(* SpecEscape: one string value is escaped as TrapValue::format escapes    *)
(* it, and the escaped form is decoded again.                              *)
(***************************************************************************)
EscAlphabet == {"n", QUOTE, BACKSLASH, NEWLINE, NUL, SOH}
EscStrings == UNION {[1..n -> EscAlphabet] : n \in 0..MaxStrLen}

\* the character a backslash escape stands for
Unescaped(code) ==
    CASE code = <<BACKSLASH>> -> BACKSLASH
      [] code = <<"n">> -> NEWLINE
      [] code = <<"r">> -> CR
      [] code = <<"t">> -> TAB
      [] code = <<"0">> -> NUL
      [] OTHER -> CHOOSE c \in {NUL, SOH, NEWLINE, CR, TAB} :
                      <<"x">> \o Hex02(CodePoint(c)) = code

RECURSIVE Unescape(_)
\* the decoder of the escaped form: "" is a quote, a backslash starts an
\* escape of one character or of x and two hexadecimal digits
Unescape(e) ==
    IF e = <<>> THEN <<>>
    ELSE IF Head(e) = QUOTE THEN <<QUOTE>> \o Unescape(SubSeq(e, 3, Len(e)))
    ELSE IF Head(e) = BACKSLASH
    THEN IF e[2] = "x"
         THEN <<Unescaped(SubSeq(e, 2, 4))>> \o Unescape(SubSeq(e, 5, Len(e)))
         ELSE <<Unescaped(SubSeq(e, 2, 2))>> \o Unescape(SubSeq(e, 3, Len(e)))
    ELSE <<Head(e)>> \o Unescape(Tail(e))

EscOff == [pc |-> -1, s |-> <<>>, e |-> <<>>, d |-> <<>>]

\* TrapValue::escape_string(s)
EscEscape ==
    /\ esc.pc = 0
    /\ esc' = [esc EXCEPT !.pc = 1, !.e = TrapValue_escape_string(esc.s)]

\* a reader of the text decodes the escaped form
EscDecode ==
    /\ esc.pc = 1
    /\ esc' = [esc EXCEPT !.pc = 2, !.d = Unescape(esc.e)]

NextEscape ==
    \/ EscEscape /\ UNCHANGED <<wvars, avars, kvars, evars, rvars, nvars, bvars>>
    \/ EscDecode /\ UNCHANGED <<wvars, avars, kvars, evars, rvars, nvars, bvars>>

\* the string values; none when the component is off
EscStarts(on) ==
    IF on THEN {[pc |-> 0, s |-> str, e |-> <<>>, d |-> <<>>] : str \in EscStrings}
    ELSE {EscOff}

(***************************************************************************)
(* extraction/extractor.rs.  A syntax tree is the sequence of its nodes,   *)
(* the root first; a node names its children by their positions in that    *)
(* sequence and gives the field name of each child ("" for none).          *)
(***************************************************************************)
None == [some |-> FALSE, v |-> <<>>]
Some(v) == [some |-> TRUE, v |-> v]

Node(kind, kind_id, named, children, fields, start, end, text) ==
    [kind |-> kind, kind_id |-> kind_id, named |-> named, children |-> children,
     fields |-> fields, start |-> start, end |-> end, text |-> text]

Point(row, column) == [row |-> row, column |-> column]

\* the largest value of the coordinate type (u32::MAX)
U32_MAX == 2 ^ CoordBits - 1

\* usize as u32
as_u32(v) == v % (U32_MAX + 1)

\* u32 + 1 where the build does not check the overflow
wrapping_add_one(v) == (v + 1) % (U32_MAX + 1)

\* an empty source file: the root is a leaf
Tree_empty ==
    <<Node(<<"source_file">>, 1, TRUE, <<>>, <<>>, Point(0, 0), Point(0, 0), <<>>)>>

\* a named child bound to a field and an anonymous token
Tree_stmt ==
    <<Node(<<"source_file">>, 1, TRUE, <<2, 3>>, <<"name", "">>,
           Point(0, 0), Point(0, 2), <<"a", ";">>),
      Node(<<"identifier">>, 2, TRUE, <<>>, <<>>, Point(0, 0), Point(0, 1), <<"a">>),
      Node(<<";">>, 3, FALSE, <<>>, <<>>, Point(0, 1), Point(0, 2), <<";">>)>>

\* a child with a child of its own
Tree_nested ==
    <<Node(<<"source_file">>, 1, TRUE, <<2>>, <<"body">>,
           Point(0, 0), Point(1, 2), <<"+", "=">>),
      Node(<<"Block">>, 4, TRUE, <<3>>, <<"">>, Point(1, 0), Point(1, 2), <<"+", "=">>),
      Node(<<"+", "=">>, 5, FALSE, <<>>, <<>>, Point(1, 0), Point(1, 2), <<"+", "=">>)>>

\* two fields with two children each, interleaved, and a token without a field
Tree_fields ==
    <<Node(<<"source_file">>, 1, TRUE, <<2, 3, 4, 5, 6>>, <<"a", "", "b", "a", "b">>,
           Point(0, 0), Point(0, 5), <<"p", ",", "q", "r", "s">>),
      Node(<<"identifier">>, 2, TRUE, <<>>, <<>>, Point(0, 0), Point(0, 1), <<"p">>),
      Node(<<",">>, 6, FALSE, <<>>, <<>>, Point(0, 1), Point(0, 2), <<",">>),
      Node(<<"identifier">>, 2, TRUE, <<>>, <<>>, Point(0, 2), Point(0, 3), <<"q">>),
      Node(<<"identifier">>, 2, TRUE, <<>>, <<>>, Point(0, 3), Point(0, 4), <<"r">>),
      Node(<<"identifier">>, 2, TRUE, <<>>, <<>>, Point(0, 4), Point(0, 5), <<"s">>)>>

\* a source of U32_MAX line ends and an identifier on its last line
Tree_wide ==
    <<Node(<<"source_file">>, 1, TRUE, <<2>>, <<"">>, Point(0, 0), Point(U32_MAX, 1),
           [i \in 1..(U32_MAX + 1) |-> IF i <= U32_MAX THEN NEWLINE ELSE "a"]),
      Node(<<"identifier">>, 2, TRUE, <<>>, <<>>, Point(U32_MAX, 0), Point(U32_MAX, 1),
           <<"a">>)>>

Trees == {Tree_empty, Tree_stmt, Tree_nested, Tree_fields, Tree_wide}

\* absolute, relative and bare file paths
FilePaths == {<<"/", "x", "/", "y", "/", "Z.sol">>, <<"x", "/", "Z.sol">>, <<"Z.sol">>}

\* the outcomes of the parser step of extract
ParserOutcomes == {"ok", "set_language_err", "no_tree"}

\* the character U+0060, which the language cannot hold in a string literal
BACKTICK == "U+0060"

RECURSIVE Replace(_, _, _)
\* str::replace(c, word)
Replace(s, c, word) ==
    IF s = <<>> THEN <<>>
    ELSE (IF Head(s) = c THEN <<word>> ELSE <<Head(s)>>) \o Replace(Tail(s), c, word)

\* str::to_lowercase, for the upper-case atoms of the model
to_lowercase(s) ==
    [i \in DOMAIN s |-> CASE s[i] = "Block" -> "block"
                          [] s[i] = "A" -> "a"
                          [] OTHER -> s[i]]

\* normalize_kind
normalize_kind(kind) ==
    LET r1 == Replace(kind, "-", "_")
        r2 == Replace(r1, "+", "plus")
        r3 == Replace(r2, "*", "star")
        r4 == Replace(r3, "/", "slash")
        r5 == Replace(r4, "%", "percent")
        r6 == Replace(r5, "&", "amp")
        r7 == Replace(r6, "|", "pipe")
        r8 == Replace(r7, "^", "caret")
        r9 == Replace(r8, "!", "bang")
        r10 == Replace(r9, "=", "eq")
        r11 == Replace(r10, "<", "lt")
        r12 == Replace(r11, ">", "gt")
        r13 == Replace(r12, ".", "dot")
        r14 == Replace(r13, ",", "comma")
        r15 == Replace(r14, ";", "semi")
        r16 == Replace(r15, ":", "colon")
        r17 == Replace(r16, "(", "lparen")
        r18 == Replace(r17, ")", "rparen")
        r19 == Replace(r18, "[", "lbracket")
        r20 == Replace(r19, "]", "rbracket")
        r21 == Replace(r20, "{", "lbrace")
        r22 == Replace(r21, "}", "rbrace")
        r23 == Replace(r22, "?", "question")
        r24 == Replace(r23, "~", "tilde")
        r25 == Replace(r24, "@", "at")
        r26 == Replace(r25, "#", "hash")
        r27 == Replace(r26, "$", "dollar")
        r28 == Replace(r27, BACKTICK, "backtick")
        r29 == Replace(r28, "'", "squote")
        r30 == Replace(r29, QUOTE, "dquote")
    IN  to_lowercase(r30)

\* the position of the last "/" of a path, 0 when it has none
LastSlash(p) ==
    IF \E i \in DOMAIN p : p[i] = "/"
    THEN CHOOSE i \in DOMAIN p : p[i] = "/" /\ \A j \in (i + 1)..Len(p) : p[j] # "/"
    ELSE 0

\* Path::parent, for paths without ".", ".." or repeated separators
Path_parent(p) ==
    IF p = <<>> \/ p = <<"/">> THEN None
    ELSE IF LastSlash(p) = 0 THEN Some(<<>>)
    ELSE IF LastSlash(p) = 1 THEN Some(<<"/">>)
    ELSE Some(SubSeq(p, 1, LastSlash(p) - 1))

RECURSIVE ParentDirs(_)
\* emit_folder_hierarchy: the non-empty parent directories, nearest first
ParentDirs(p) ==
    LET dir == Path_parent(p)
    IN  IF ~dir.some THEN <<>>
        ELSE (IF dir.v # <<>> THEN <<dir.v>> ELSE <<>>) \o ParentDirs(dir.v)

\* Vec::reverse
Reverse_unchanged(s) == s
Reverse(s) == [i \in DOMAIN s |-> s[Len(s) + 1 - i]]

RECURSIVE EmitFolders(_, _, _)
\* emit_folder_hierarchy: the loop over the folders, root first
EmitFolders(w, folders, parent_label) ==
    IF folders = <<>> THEN [w |-> w, parent_label |-> parent_label]
    ELSE LET f == emit_folder(w, Head(folders))
             w1 == IF parent_label.some
                   THEN emit(f.w, <<"containerparent">>,
                             <<V_Label(parent_label.v), V_Label(f.label)>>)
                   ELSE f.w
         IN  EmitFolders(w1, Tail(folders), Some(f.label))

\* Extractor::emit_folder_hierarchy
emit_folder_hierarchy(x) ==
    LET r == EmitFolders(x.trap, Reverse(ParentDirs(x.file_path)), None)
    IN  IF r.parent_label.some /\ x.file_label.some
        THEN [x EXCEPT !.trap = emit(r.w, <<"containerparent">>,
                                     <<V_Label(r.parent_label.v), V_Label(x.file_label.v)>>)]
        ELSE [x EXCEPT !.trap = r.w]

\* Extractor::emit_ast_node_info
emit_ast_node_info(w, label, kind_id) ==
    emit(w, <<"solidity_ast_node_info">>, <<V_Label(label), V_UInt(kind_id)>>)

\* Extractor::emit_node_location
emit_node_location(w, file_label, label, node) ==
    LET loc == emit_location(w, file_label,
                             wrapping_add_one(as_u32(node.start.row)),
                             wrapping_add_one(as_u32(node.start.column)),
                             wrapping_add_one(as_u32(node.end.row)),
                             wrapping_add_one(as_u32(node.end.column)))
    IN  emit(loc.w, <<"solidity_ast_node_location">>, <<V_Label(label), V_Label(loc.label)>>)

\* one of the four additions of emit_node_location overflows: a build with
\* overflow checks panics there, a build without them wraps
add_overflows(node) ==
    \E c \in {node.start.row, node.start.column, node.end.row, node.end.column} :
        as_u32(c) = U32_MAX

\* Extractor::emit_token_info
emit_token_info_noText(w, label, kind, value) ==
    emit(w, <<"solidity_tokeninfo">>, <<V_Label(label), V_UInt(kind), V_String(<<>>)>>)
emit_token_info(w, label, kind, value) ==
    emit(w, <<"solidity_tokeninfo">>, <<V_Label(label), V_UInt(kind), V_String(value)>>)

NoFieldIndices == [f \in {} |-> 0]

\* no node has a label yet (node_label records, for the properties, the
\* label extract_node returned for each node)
NoNodeLabels == [n \in {} |-> <<>>]

\* extract_node up to the call of extract_children_and_fields: the node's
\* own tuples; its frame is pushed for the loop over its children
extract_node_kindTableForTokens(x, tree, n, parent_info) ==
    LET node == tree[n]
        f == fresh_label(x.trap)
        table_name == <<"solidity_">> \o normalize_kind(node.kind) \o <<"_def">>
        w1 == emit(f.w, table_name, <<V_Label(f.label)>>)
        w2 == emit_ast_node_info(w1, f.label, node.kind_id)
        w3 == emit_node_location(w2, x.file_label.v, f.label, node)
        w4 == IF parent_info.some
              THEN emit(w3, <<"solidity_ast_node_parent">>,
                        <<V_Label(f.label), V_Label(parent_info.v.label),
                          V_UInt(parent_info.v.index)>>)
              ELSE w3
        w5 == IF Len(node.children) = 0
              THEN emit_token_info(w4, f.label, node.kind_id, node.text)
              ELSE w4
    IN  [x EXCEPT !.trap = w5,
                  !.node_label = [m \in (DOMAIN @) \cup {n} |->
                                     IF m = n THEN f.label ELSE @[m]],
                  !.stack = Append(@, [node |-> n, label |-> f.label, child_index |-> 0,
                                       field_indices |-> NoFieldIndices])]
extract_node(x, tree, n, parent_info) ==
    LET node == tree[n]
        f == fresh_label(x.trap)
        table_name == IF node.named
                      THEN <<"solidity_">> \o normalize_kind(node.kind) \o <<"_def">>
                      ELSE <<"solidity_token_def">>
        w1 == emit(f.w, table_name, <<V_Label(f.label)>>)
        w2 == emit_ast_node_info(w1, f.label, node.kind_id)
        w3 == emit_node_location(w2, x.file_label.v, f.label, node)
        w4 == IF parent_info.some
              THEN emit(w3, <<"solidity_ast_node_parent">>,
                        <<V_Label(f.label), V_Label(parent_info.v.label),
                          V_UInt(parent_info.v.index)>>)
              ELSE w3
        w5 == IF Len(node.children) = 0
              THEN emit_token_info(w4, f.label, node.kind_id, node.text)
              ELSE w4
    IN  [x EXCEPT !.trap = w5,
                  !.node_label = [m \in (DOMAIN @) \cup {n} |->
                                     IF m = n THEN f.label ELSE @[m]],
                  !.stack = Append(@, [node |-> n, label |-> f.label, child_index |-> 0,
                                       field_indices |-> NoFieldIndices])]

\* extract_children_and_fields after a child's extract_node returned: the
\* field tuple of that child, and the loop moves to the next child
after_child_siblingIndex(x, tree, child_label) ==
    LET top == x.stack[Len(x.stack)]
        node == tree[top.node]
        field_name == node.fields[top.child_index + 1]
        table_name == <<"solidity_">> \o normalize_kind(node.kind) \o <<"_", field_name>>
        next == [top EXCEPT !.child_index = @ + 1]
    IN  IF field_name # ""
        THEN [x EXCEPT
                !.trap = emit(@, table_name,
                              <<V_Label(top.label), V_UInt(top.child_index),
                                V_Label(child_label)>>),
                !.stack[Len(x.stack)] = next]
        ELSE [x EXCEPT !.stack[Len(x.stack)] = next]
after_child(x, tree, child_label) ==
    LET top == x.stack[Len(x.stack)]
        node == tree[top.node]
        field_name == node.fields[top.child_index + 1]
        field_idx == IF field_name \in DOMAIN top.field_indices
                     THEN top.field_indices[field_name] ELSE 0
        table_name == <<"solidity_">> \o normalize_kind(node.kind) \o <<"_", field_name>>
        next == [top EXCEPT !.child_index = @ + 1]
    IN  IF field_name # ""
        THEN [x EXCEPT
                !.trap = emit(@, table_name,
                              <<V_Label(top.label), V_UInt(field_idx), V_Label(child_label)>>),
                !.stack[Len(x.stack)] =
                    [next EXCEPT !.field_indices =
                        [g \in (DOMAIN @) \cup {field_name} |->
                            IF g = field_name THEN field_idx + 1 ELSE @[g]]]]
        ELSE [x EXCEPT !.stack[Len(x.stack)] = next]

\* Extractor::new
Extractor_new(file_path) ==
    [phase |-> "new", file_path |-> file_path, trap |-> TrapWriter_new,
     file_label |-> None, stack |-> <<>>, node_label |-> NoNodeLabels]

NoExtractor(phase) ==
    [phase |-> phase, file_path |-> <<>>, trap |-> TrapWriter_new,
     file_label |-> None, stack |-> <<>>, node_label |-> NoNodeLabels]

(***************************************************************************)
(* SpecExtract: two extractors, each constructed for its own file, run     *)
(* side by side as two workers run them.                                   *)
(***************************************************************************)
Extractors == {1, 2}
Other(e) == 3 - e

\* let mut extractor = Extractor::new(&file_str)
ExtNew_sharedGenerator(e) ==
    /\ ext[e].phase = "none"
    /\ ext' = [ext EXCEPT ![e] =
                 [Extractor_new(job[e].path) EXCEPT !.trap.labels = ext[Other(e)].trap.labels]]
    /\ UNCHANGED job
ExtNew(e) ==
    /\ ext[e].phase = "none"
    /\ ext' = [ext EXCEPT ![e] = Extractor_new(job[e].path)]
    /\ UNCHANGED job

\* Extractor::extract: the parser step, the file entry, the folder hierarchy
\* and the root node
ExtExtract_emitFirst(e) ==
    /\ ext[e].phase = "new"
    /\ \E outcome \in ParserOutcomes :
          LET x0 == ext[e]
              f == emit_file(x0.trap, x0.file_path)
              x1 == [x0 EXCEPT !.trap = f.w, !.file_label = Some(f.label)]
              x2 == emit_folder_hierarchy(x1)
              x3 == extract_node(x2, job[e].tree, 1, None)
          IN  IF outcome # "ok"
              THEN ext' = [ext EXCEPT ![e] = [x1 EXCEPT !.phase = "err"]]
              ELSE \E overflow_checks \in BOOLEAN :
                      IF overflow_checks /\ add_overflows(job[e].tree[1])
                      THEN ext' = [ext EXCEPT ![e].phase = "panic"]
                      ELSE ext' = [ext EXCEPT ![e] = [x3 EXCEPT !.phase = "walk"]]
    /\ UNCHANGED job
ExtExtract(e) ==
    /\ ext[e].phase = "new"
    /\ \E outcome \in ParserOutcomes :
          IF outcome # "ok"
          THEN ext' = [ext EXCEPT ![e].phase = "err"]
          ELSE LET x0 == ext[e]
                   f == emit_file(x0.trap, x0.file_path)
                   x1 == [x0 EXCEPT !.trap = f.w, !.file_label = Some(f.label)]
                   x2 == emit_folder_hierarchy(x1)
                   x3 == extract_node(x2, job[e].tree, 1, None)
               IN  \E overflow_checks \in BOOLEAN :
                      IF overflow_checks /\ add_overflows(job[e].tree[1])
                      THEN ext' = [ext EXCEPT ![e].phase = "panic"]
                      ELSE ext' = [ext EXCEPT ![e] = [x3 EXCEPT !.phase = "walk"]]
    /\ UNCHANGED job

\* extract_children_and_fields: extract_node for the next child
ExtChild_oneBased(e) ==
    /\ ext[e].phase = "walk"
    /\ LET x == ext[e]
           top == x.stack[Len(x.stack)]
           node == job[e].tree[top.node]
       IN  /\ top.child_index < Len(node.children)
           /\ \E overflow_checks \in BOOLEAN :
                 LET child == node.children[top.child_index + 1]
                 IN  IF overflow_checks /\ add_overflows(job[e].tree[child])
                     THEN ext' = [ext EXCEPT ![e].phase = "panic"]
                     ELSE ext' = [ext EXCEPT ![e] =
                                    extract_node(x, job[e].tree, child,
                                                 Some([label |-> top.label,
                                                       index |-> top.child_index + 1]))]
    /\ UNCHANGED job
ExtChild_lastFirst(e) ==
    /\ ext[e].phase = "walk"
    /\ LET x == ext[e]
           top == x.stack[Len(x.stack)]
           node == job[e].tree[top.node]
       IN  /\ top.child_index < Len(node.children)
           /\ \E overflow_checks \in BOOLEAN :
                 LET child == node.children[Len(node.children) - top.child_index]
                 IN  IF overflow_checks /\ add_overflows(job[e].tree[child])
                     THEN ext' = [ext EXCEPT ![e].phase = "panic"]
                     ELSE ext' = [ext EXCEPT ![e] =
                                    extract_node(x, job[e].tree, child,
                                                 Some([label |-> top.label,
                                                       index |-> top.child_index]))]
    /\ UNCHANGED job
ExtChild(e) ==
    /\ ext[e].phase = "walk"
    /\ LET x == ext[e]
           top == x.stack[Len(x.stack)]
           node == job[e].tree[top.node]
       IN  /\ top.child_index < Len(node.children)
           /\ \E overflow_checks \in BOOLEAN :
                 LET child == node.children[top.child_index + 1]
                 IN  IF overflow_checks /\ add_overflows(job[e].tree[child])
                     THEN ext' = [ext EXCEPT ![e].phase = "panic"]
                     ELSE ext' = [ext EXCEPT ![e] =
                                    extract_node(x, job[e].tree, child,
                                                 Some([label |-> top.label,
                                                       index |-> top.child_index]))]
    /\ UNCHANGED job

\* extract_node returns its label: to the loop of the parent, or to
\* extract_tree when the node is the root
ExtReturn(e) ==
    /\ ext[e].phase = "walk"
    /\ LET x == ext[e]
           top == x.stack[Len(x.stack)]
           node == job[e].tree[top.node]
           popped == [x EXCEPT !.stack = SubSeq(@, 1, Len(@) - 1)]
       IN  /\ top.child_index = Len(node.children)
           /\ ext' = [ext EXCEPT ![e] =
                        IF popped.stack = <<>> THEN [popped EXCEPT !.phase = "ok"]
                        ELSE after_child(popped, job[e].tree, top.label)]
    /\ UNCHANGED job

NextExtract ==
    \/ \E e \in Extractors :
          ExtNew(e) /\ UNCHANGED <<wvars, avars, kvars, rvars, svars, nvars, bvars>>
    \/ \E e \in Extractors :
          ExtExtract(e) /\ UNCHANGED <<wvars, avars, kvars, rvars, svars, nvars, bvars>>
    \/ \E e \in Extractors :
          ExtChild(e) /\ UNCHANGED <<wvars, avars, kvars, rvars, svars, nvars, bvars>>
    \/ \E e \in Extractors :
          ExtReturn(e) /\ UNCHANGED <<wvars, avars, kvars, rvars, svars, nvars, bvars>>

\* the inputs of the extractors; none when the component is off
Jobs(on) ==
    IF on THEN [path : FilePaths, tree : Trees] ELSE {[path |-> <<>>, tree |-> <<>>]}

(***************************************************************************)
(* schema/mod.rs and codegen/mod.rs: the names of the tables of a field.   *)
(***************************************************************************)
\* schema/mod.rs normalize_name
schema_normalize_name(name) ==
    LET r1 == Replace(name, "-", "_")
        r2 == Replace(r1, "+", "plus")
        r3 == Replace(r2, "*", "star")
        r4 == Replace(r3, "/", "slash")
        r5 == Replace(r4, "%", "percent")
        r6 == Replace(r5, "&", "amp")
        r7 == Replace(r6, "|", "pipe")
        r8 == Replace(r7, "^", "caret")
        r9 == Replace(r8, "!", "bang")
        r10 == Replace(r9, "=", "eq")
        r11 == Replace(r10, "<", "lt")
        r12 == Replace(r11, ">", "gt")
        r13 == Replace(r12, ".", "dot")
        r14 == Replace(r13, ",", "comma")
        r15 == Replace(r14, ";", "semi")
        r16 == Replace(r15, ":", "colon")
        r17 == Replace(r16, "(", "lparen")
        r18 == Replace(r17, ")", "rparen")
        r19 == Replace(r18, "[", "lbracket")
        r20 == Replace(r19, "]", "rbracket")
        r21 == Replace(r20, "{", "lbrace")
        r22 == Replace(r21, "}", "rbrace")
        r23 == Replace(r22, "?", "question")
        r24 == Replace(r23, "~", "tilde")
        r25 == Replace(r24, "@", "at")
        r26 == Replace(r25, "#", "hash")
        r27 == Replace(r26, "$", "dollar")
        r28 == Replace(r27, BACKTICK, "backtick")
        r29 == Replace(r28, "'", "squote")
        r30 == Replace(r29, QUOTE, "dquote")
    IN  to_lowercase(r30)

\* codegen/mod.rs normalize_name
codegen_normalize_name(name) ==
    LET r1 == Replace(name, "-", "_")
        r2 == Replace(r1, "+", "plus")
        r3 == Replace(r2, "*", "star")
        r4 == Replace(r3, "/", "slash")
        r5 == Replace(r4, "%", "percent")
        r6 == Replace(r5, "&", "amp")
        r7 == Replace(r6, "|", "pipe")
        r8 == Replace(r7, "^", "caret")
        r9 == Replace(r8, "!", "bang")
        r10 == Replace(r9, "=", "eq")
        r11 == Replace(r10, "<", "lt")
        r12 == Replace(r11, ">", "gt")
        r13 == Replace(r12, ".", "dot")
        r14 == Replace(r13, ",", "comma")
        r15 == Replace(r14, ";", "semi")
        r16 == Replace(r15, ":", "colon")
        r17 == Replace(r16, "(", "lparen")
        r18 == Replace(r17, ")", "rparen")
        r19 == Replace(r18, "[", "lbracket")
        r20 == Replace(r19, "]", "rbracket")
        r21 == Replace(r20, "{", "lbrace")
        r22 == Replace(r21, "}", "rbrace")
        r23 == Replace(r22, "?", "question")
        r24 == Replace(r23, "~", "tilde")
        r25 == Replace(r24, "@", "at")
        r26 == Replace(r25, "#", "hash")
        r27 == Replace(r26, "$", "dollar")
        r28 == Replace(r27, BACKTICK, "backtick")
        r29 == Replace(r28, "'", "squote")
        r30 == Replace(r29, QUOTE, "dquote")
    IN  to_lowercase(r30)

\* generate_node_tables: the table the schema declares for a field of a kind
generate_node_tables(type_name, field_name) ==
    <<"solidity_">> \o schema_normalize_name(type_name) \o <<"_">>
        \o schema_normalize_name(field_name)

\* extract_children_and_fields: the table the field tuple is emitted into
field_table_name(kind, field_name) ==
    <<"solidity_">> \o normalize_kind(kind) \o <<"_">> \o field_name

(***************************************************************************)
(* SpecNames: a kind and a field of the grammar; the extractor names the   *)
(* table of the field tuple, the schema generator declares the table of    *)
(* the field and the library generator normalizes the kind.                *)
(***************************************************************************)
NameAlphabet == {"a", "A", "_", "-", "+"}
NameStrings == UNION {[1..n -> NameAlphabet] : n \in 1..MaxNameLen}

NamesOff == [pc |-> -1, kind |-> <<>>, field |-> <<>>, emitted |-> <<>>,
             declared |-> <<>>, class |-> <<>>]

\* the extractor emits the field tuple
NamesEmit ==
    /\ names.pc = 0
    /\ names' = [names EXCEPT !.pc = 1,
                              !.emitted = field_table_name(names.kind, names.field)]

\* the schema generator declares the table
NamesDeclare ==
    /\ names.pc = 1
    /\ names' = [names EXCEPT !.pc = 2,
                              !.declared = generate_node_tables(names.kind, names.field)]

\* the library generator normalizes the kind
NamesClass ==
    /\ names.pc = 2
    /\ names' = [names EXCEPT !.pc = 3, !.class = codegen_normalize_name(names.kind)]

NextNames ==
    \/ NamesEmit /\ UNCHANGED <<wvars, avars, kvars, evars, rvars, svars, bvars>>
    \/ NamesDeclare /\ UNCHANGED <<wvars, avars, kvars, evars, rvars, svars, bvars>>
    \/ NamesClass /\ UNCHANGED <<wvars, avars, kvars, evars, rvars, svars, bvars>>

NameStarts(on) ==
    IF on THEN {[NamesOff EXCEPT !.pc = 0, !.kind = k, !.field = f] :
                   k \in NameStrings, f \in NameStrings}
    ELSE {NamesOff}

(***************************************************************************)
(* extraction/mod.rs: run and process_file.  A line of the file list is    *)
(* its text, or a read error.                                              *)
(***************************************************************************)
OkLine(text) == [ok |-> TRUE, text |-> text]
ErrLine == [ok |-> FALSE, text |-> <<>>]

\* two absolute paths, a relative path, a blank line and an unreadable line
File_A == <<"/", "A">>
File_B == <<"/", "B">>
File_relA == <<"..", "/", "A">>

ListLines == {OkLine(File_A), OkLine(File_B), OkLine(File_relA), OkLine(<<" ">>), ErrLine}
FileLists == UNION {[1..n -> ListLines] : n \in 0..MaxLines}

\* ExtractOptions: trap_dir, source_archive_dir, compression
TrapDir == <<"/", "t">>
ArchiveDir == <<"/", "s">>
Compressions == {"Gzip", "None"}

\* the directory the process runs in
Cwd == <<"/", "w">>

\* the outcomes of run before the files are processed
SetupOutcomes == {"pool_err", "trap_dir_err", "archive_dir_err", "file_list_err", "ok"}

\* the outcomes of process_file after the source was read
ProcessOutcomes ==
    {"set_language_err", "parse_err", "mkdir_err", "create_err", "write_err",
     "copy_err", "ok"}

RECURSIVE map_while_ok(_)
\* Iterator::map_while(Result::ok): the lines before the first read error
map_while_ok(lines) ==
    IF lines = <<>> \/ ~Head(lines).ok THEN <<>>
    ELSE <<Head(lines).text>> \o map_while_ok(Tail(lines))

\* str::trim().is_empty()
is_blank(text) == \A i \in DOMAIN text : text[i] \in {" ", TAB}

is_file_line(text) == ~is_blank(text)

\* run: the file list read into files
read_files(lines) == SelectSeq(map_while_ok(lines), is_file_line)

\* Path::canonicalize when it succeeds: the absolute path of the file
canonicalize(file) ==
    IF file[1] = "/" THEN file
    ELSE IF file[1] = ".."
    THEN (IF Path_parent(Cwd).v = <<"/">> THEN <<>> ELSE Path_parent(Cwd).v)
         \o SubSeq(file, 2, Len(file))
    ELSE Cwd \o <<"/">> \o file

\* the first 8 bytes of Sha256 of the path text
Sha256_first8(path) ==
    CASE path = File_A -> <<116, 54, 234, 232, 28, 183, 124, 227>>
      [] path = File_B -> <<11, 178, 174, 225, 112, 220, 67, 231>>
      [] path = File_relA -> <<128, 221, 133, 2, 147, 177, 37, 114>>
      [] path = <<"/", "r", "/", "A", ".", "sol">>
            -> <<71, 172, 100, 190, 65, 133, 208, 25>>
      [] path = <<"/", "r", "/", "s", "/", "F", ".", "sol">>
            -> <<90, 242, 118, 68, 255, 209, 195, 162>>

RECURSIVE HexBytes(_)
\* the bytes as two hexadecimal digits each
HexBytes(bytes) ==
    IF bytes = <<>> THEN <<>> ELSE Hex02(Head(bytes)) \o HexBytes(Tail(bytes))

RECURSIVE StripZeros(_)
StripZeros(digits) ==
    IF Len(digits) > 1 /\ Head(digits) = "0" THEN StripZeros(Tail(digits)) ELSE digits

\* format!("{:x}", fold of the bytes into a u64): no leading zeros
LowerHex(bytes) == StripZeros(HexBytes(bytes))

\* Compression::extension
extension(compression) ==
    IF compression = "Gzip" THEN <<".", "trap", ".", "gz">> ELSE <<".", "trap">>

\* Path::join
Path_join(base, path) ==
    IF path # <<>> /\ path[1] = "/" THEN path
    ELSE IF base # <<>> /\ base[Len(base)] = "/" THEN base \o path
    ELSE base \o <<"/">> \o path

\* compute_trap_path
compute_trap_path(trap_dir, source_file, compression) ==
    LET hash == LowerHex(Sha256_first8(source_file))
        subdir == SubSeq(hash, 1, 2)
        filename == hash \o extension(compression)
    IN  Path_join(Path_join(trap_dir, subdir), filename)

RECURSIVE trim_start_matches(_, _)
\* str::trim_start_matches(c)
trim_start_matches(text, c) ==
    IF text # <<>> /\ Head(text) = c THEN trim_start_matches(Tail(text), c) ELSE text

\* compute_archive_path
compute_archive_path(archive_dir, source_file) ==
    Path_join(archive_dir, trim_start_matches(source_file, "/"))

\* the position of the last "." of the file name of a path that makes an
\* extension, 0 when the file name has none
ExtensionDot(path) ==
    LET from == LastSlash(path) + 1
        dots == {i \in (from + 1)..Len(path) : path[i] = "."}
    IN  IF dots = {} THEN 0 ELSE CHOOSE i \in dots : \A j \in dots : j <= i

\* Path::with_extension
with_extension(path, new_ext) ==
    LET stem == IF ExtensionDot(path) = 0 THEN path
                ELSE SubSeq(path, 1, ExtensionDot(path) - 1)
    IN  IF new_ext = <<>> THEN stem ELSE stem \o <<".">> \o new_ext

\* TrapWriter::write_to_file: the path of the file it creates
write_to_file(path, compression) ==
    with_extension(path, trim_start_matches(extension(compression), "."))

RECURSIVE Tally(_)
\* run: the loop over the results
Tally(results) ==
    IF results = <<>> THEN [success_count |-> 0, error_count |-> 0]
    ELSE LET rest == Tally(Tail(results))
         IN  IF Head(results) = "Ok"
             THEN [rest EXCEPT !.success_count = @ + 1]
             ELSE [rest EXCEPT !.error_count = @ + 1]

\* run: the decision on the tally
decide_atLeastHalf(error_count, len) ==
    IF error_count > 0 /\ error_count = len THEN [ret |-> "Err", msg |-> "all"]
    ELSE IF error_count > 0 /\ error_count >= len \div 2
    THEN [ret |-> "Err", msg |-> "too_many"]
    ELSE IF error_count > 0 THEN [ret |-> "Ok", msg |-> "warn"]
    ELSE [ret |-> "Ok", msg |-> "none"]
decide(error_count, len) ==
    IF error_count > 0 /\ error_count = len THEN [ret |-> "Err", msg |-> "all"]
    ELSE IF error_count > 0 /\ error_count > len \div 2
    THEN [ret |-> "Err", msg |-> "too_many"]
    ELSE IF error_count > 0 THEN [ret |-> "Ok", msg |-> "warn"]
    ELSE [ret |-> "Ok", msg |-> "none"]

\* one call of process_file: where it is, how often it was called, the error
\* it returned, the canonical path, and the files it created
Unit(pc, attempts) ==
    [pc |-> pc, attempts |-> attempts, err |-> "none", canonical |-> <<>>,
     trap |-> <<>>, archive |-> <<>>]

\* the environment of a run: the compression option, and whether the
\* parser accepts the grammar of this build
Envs == [compression : Compressions, language_ok : BOOLEAN]
DefaultEnv == [compression |-> "Gzip", language_ok |-> TRUE]

RunState(pc, file_list, setup, files, proc, results) ==
    [pc |-> pc, file_list |-> file_list, setup |-> setup, files |-> files,
     proc |-> proc, results |-> results, success_count |-> 0, error_count |-> 0,
     ret |-> "none", msg |-> "none", env |-> DefaultEnv]

RunOff == RunState("off", <<>>, "none", <<>>, <<>>, <<>>)

Finished(u) == u.pc \in {"Ok", "Err"}

\* run up to the parallel map: the thread pool, the output directories and
\* the file list
RunSetup_ignoreDirErr ==
    /\ run.pc = "start"
    /\ \E outcome \in SetupOutcomes :
          IF outcome \in {"pool_err", "file_list_err"}
          THEN run' = [run EXCEPT !.pc = "done", !.setup = outcome,
                                  !.ret = "Err", !.msg = outcome]
          ELSE LET files == read_files(run.file_list)
               IN  run' = [run EXCEPT !.pc = "map", !.setup = outcome, !.files = files,
                                      !.proc = [i \in DOMAIN files |-> Unit("todo", 0)]]
RunSetup ==
    /\ run.pc = "start"
    /\ \E outcome \in SetupOutcomes :
          IF outcome # "ok"
          THEN run' = [run EXCEPT !.pc = "done", !.setup = outcome,
                                  !.ret = "Err", !.msg = outcome]
          ELSE LET files == read_files(run.file_list)
               IN  run' = [run EXCEPT !.pc = "map", !.setup = "ok", !.files = files,
                                      !.proc = [i \in DOMAIN files |-> Unit("todo", 0)]]

\* process_file is called for files[i]: it reads the source and takes the
\* canonical path, or the path as given when canonicalize fails
PStart(i) ==
    /\ run.pc = "map"
    /\ run.proc[i].pc = "todo"
    /\ \E read_ok \in BOOLEAN, canonicalize_ok \in BOOLEAN :
          run' = [run EXCEPT !.proc[i] =
                    IF read_ok
                    THEN [@ EXCEPT !.pc = "running", !.attempts = @ + 1,
                                   !.canonical = IF canonicalize_ok
                                                 THEN canonicalize(run.files[i])
                                                 ELSE run.files[i]]
                    ELSE [@ EXCEPT !.pc = "Err", !.attempts = @ + 1, !.err = "read_err"]]

\* process_file for files[i] from Extractor::new to its return: extract,
\* the parent directories, the TRAP file, the copy to the source archive
PFinish(i) ==
    /\ run.pc = "map"
    /\ run.proc[i].pc = "running"
    /\ \E outcome \in ProcessOutcomes :
          /\ run.env.language_ok <=> outcome # "set_language_err"
          /\ LET u == run.proc[i]
                 trap_path == compute_trap_path(TrapDir, u.canonical, run.env.compression)
                 archive_path == compute_archive_path(ArchiveDir, u.canonical)
             IN  run' = [run EXCEPT !.proc[i] =
                    [u EXCEPT
                       !.pc = IF outcome = "ok" THEN "Ok" ELSE "Err",
                       !.err = IF outcome = "ok" THEN "none" ELSE outcome,
                       !.trap = IF outcome \in {"write_err", "copy_err", "ok"}
                                THEN write_to_file(trap_path, run.env.compression)
                                ELSE <<>>,
                       !.archive = IF outcome = "ok" THEN archive_path ELSE <<>>]]

\* par_iter().map(..).collect() returns the results in the order of the files
RunCollect_shortCircuit ==
    /\ run.pc = "map"
    /\ \/ \A i \in DOMAIN run.proc : Finished(run.proc[i])
       \/ \E i \in DOMAIN run.proc : run.proc[i].pc = "Err"
    /\ LET done == SelectSeq(run.proc, Finished)
       IN  run' = [run EXCEPT !.pc = "collected",
                              !.results = [i \in DOMAIN done |-> done[i].pc]]
RunCollect ==
    /\ run.pc = "map"
    /\ \A i \in DOMAIN run.proc : Finished(run.proc[i])
    /\ run' = [run EXCEPT !.pc = "collected",
                          !.results = [i \in DOMAIN run.proc |-> run.proc[i].pc]]

\* run: success_count and error_count
RunTally ==
    /\ run.pc = "collected"
    /\ run' = [run EXCEPT !.pc = "tallied",
                          !.success_count = Tally(run.results).success_count,
                          !.error_count = Tally(run.results).error_count]

\* run: the result of the run
RunDecide ==
    /\ run.pc = "tallied"
    /\ LET d == decide(run.error_count, Len(run.files))
       IN  run' = [run EXCEPT !.pc = "done", !.ret = d.ret, !.msg = d.msg]

NextTally ==
    \/ RunTally /\ UNCHANGED <<wvars, avars, kvars, evars, svars, nvars, bvars>>
    \/ RunDecide /\ UNCHANGED <<wvars, avars, kvars, evars, svars, nvars, bvars>>

NextRun ==
    \/ RunSetup /\ UNCHANGED <<wvars, avars, kvars, evars, svars, nvars, bvars>>
    \/ \E i \in DOMAIN run.proc :
          PStart(i) /\ UNCHANGED <<wvars, avars, kvars, evars, svars, nvars, bvars>>
    \/ \E i \in DOMAIN run.proc :
          PFinish(i) /\ UNCHANGED <<wvars, avars, kvars, evars, svars, nvars, bvars>>
    \/ RunCollect /\ UNCHANGED <<wvars, avars, kvars, evars, svars, nvars, bvars>>
    \/ RunTally /\ UNCHANGED <<wvars, avars, kvars, evars, svars, nvars, bvars>>
    \/ RunDecide /\ UNCHANGED <<wvars, avars, kvars, evars, svars, nvars, bvars>>

\* n results of which f are failures, the failures first or last
ResultsOf(n, f, errFirst) ==
    [i \in 1..n |-> IF (errFirst /\ i <= f) \/ (~errFirst /\ i > n - f)
                    THEN "Err" ELSE "Ok"]

\* a run of n files whose results were collected
Collected(n, f, errFirst) ==
    RunState("collected", [i \in 1..n |-> OkLine(File_A)], "ok",
             [i \in 1..n |-> File_A],
             [i \in 1..n |-> Unit(ResultsOf(n, f, errFirst)[i], 1)],
             ResultsOf(n, f, errFirst))

\* the states of run the component starts in: before anything ran; or with
\* the results of up to MaxTally files collected; or off
RunStarts(component) ==
    IF component = "run"
    THEN {[RunState("start", l, "none", <<>>, <<>>, <<>>) EXCEPT !.env = env] :
             l \in FileLists, env \in Envs}
    ELSE IF component = "tally"
    THEN UNION {{Collected(n, f, b) : f \in 0..n, b \in BOOLEAN} : n \in 0..MaxTally}
    ELSE {RunOff}

(***************************************************************************)
(* extraction/mod.rs: autobuild.  The tree below the root is the set of    *)
(* its entries, files and directories; the TRAP directory exists or not    *)
(* when autobuild is called.                                               *)
(***************************************************************************)
Root == <<"/", "r">>

Entry(path, is_file) == [path |-> path, is_file |-> is_file]

Sol_A == <<"/", "r", "/", "A", ".", "sol">>
Sol_F == <<"/", "r", "/", "s", "/", "F", ".", "sol">>

\* what the root may hold: two Solidity files, one under each excluded
\* directory, and a file that is not Solidity
RootEntries ==
    {Entry(Sol_A, TRUE), Entry(Sol_F, TRUE),
     Entry(<<"/", "r", "/", "node_modules", "/", "B", ".", "sol">>, TRUE),
     Entry(<<"/", "r", "/", ".git", "/", "D", ".", "sol">>, TRUE),
     Entry(<<"/", "r", "/", "cache", "/", "E", ".", "sol">>, TRUE),
     Entry(<<"/", "r", "/", "C", ".", "txt">>, TRUE)}

\* Path::extension
Path_extension(path) ==
    IF ExtensionDot(path) = 0 THEN None
    ELSE Some(SubSeq(path, ExtensionDot(path) + 1, Len(path)))

\* Path::components: the names between the separators
Components(path) ==
    LET seps == {0} \cup {i \in DOMAIN path : path[i] = "/"} \cup {Len(path) + 1}
        spans == {x \in seps \X seps :
                     /\ x[1] + 1 < x[2]
                     /\ \A k \in seps : ~(x[1] < k /\ k < x[2])}
    IN  {SubSeq(path, x[1] + 1, x[2] - 1) : x \in spans}

ExcludedComponents == {<<"node_modules">>, <<".git">>, <<"cache">>}

\* the two filters of autobuild
is_solidity_file(entry) ==
    /\ entry.is_file
    /\ Path_extension(entry.path) = Some(<<"sol">>)
    /\ Components(entry.path) \cap ExcludedComponents = {}

\* the orders in which the walk may yield a set of paths
Orderings(S) ==
    {f \in [1..Cardinality(S) -> S] : \A i, j \in 1..Cardinality(S) : i # j => f[i] # f[j]}

AutoState(pc, entries, trap_dir, env) ==
    [pc |-> pc, entries |-> entries, dir0 |-> trap_dir, trap_dir |-> trap_dir,
     archive_dir |-> FALSE, files |-> <<>>, file_list |-> None, err |-> "none",
     ret |-> "none", env |-> env]

AutoOff == AutoState("off", {}, FALSE, DefaultEnv)

\* autobuild: the walk and its filters; no file found is a success
AutoWalk ==
    /\ auto.pc = "start"
    /\ \E files \in Orderings({en.path : en \in {x \in auto.entries : is_solidity_file(x)}}) :
          auto' = IF files = <<>>
                  THEN [auto EXCEPT !.pc = "done", !.ret = "Ok"]
                  ELSE [auto EXCEPT !.pc = "found", !.files = files]

\* autobuild: fs::write of trap_dir/file_list.txt, which creates no
\* directory, and the options of run
AutoWriteList ==
    /\ auto.pc = "found"
    /\ \E outcome \in IF auto.trap_dir THEN {"ok", "io"} ELSE {"not_found"} :
          IF outcome = "ok"
          THEN /\ auto' = [auto EXCEPT
                             !.pc = "listed",
                             !.file_list = Some([i \in DOMAIN auto.files |->
                                                   OkLine(auto.files[i])])]
               /\ run' = [RunState("start", auto'.file_list.v, "none", <<>>, <<>>, <<>>)
                             EXCEPT !.env = auto.env]
          ELSE /\ auto' = [auto EXCEPT !.pc = "done", !.err = outcome, !.ret = "Err"]
               /\ run' = run

\* autobuild calls run with threads: None: the output directories and the
\* file list
AutoRunSetup ==
    /\ auto.pc = "listed"
    /\ RunSetup
    /\ run'.setup # "pool_err"
    /\ auto' = [auto EXCEPT !.pc = "running",
                            !.trap_dir = @ \/ run'.setup # "trap_dir_err",
                            !.archive_dir = run'.setup \in {"file_list_err", "ok"}]

\* autobuild returns what run returned
AutoReturn ==
    /\ auto.pc = "running"
    /\ run.pc = "done"
    /\ auto' = [auto EXCEPT !.pc = "done", !.ret = run.ret]

NextAuto ==
    \/ AutoWalk /\ UNCHANGED <<wvars, avars, kvars, evars, rvars, svars, nvars>>
    \/ AutoWriteList /\ UNCHANGED <<wvars, avars, kvars, evars, svars, nvars>>
    \/ AutoRunSetup /\ UNCHANGED <<wvars, avars, kvars, evars, svars, nvars>>
    \/ \E i \in DOMAIN run.proc :
          PStart(i) /\ UNCHANGED <<wvars, avars, kvars, evars, svars, nvars, bvars>>
    \/ \E i \in DOMAIN run.proc :
          PFinish(i) /\ UNCHANGED <<wvars, avars, kvars, evars, svars, nvars, bvars>>
    \/ RunCollect /\ UNCHANGED <<wvars, avars, kvars, evars, svars, nvars, bvars>>
    \/ RunTally /\ UNCHANGED <<wvars, avars, kvars, evars, svars, nvars, bvars>>
    \/ RunDecide /\ UNCHANGED <<wvars, avars, kvars, evars, svars, nvars, bvars>>
    \/ AutoReturn /\ UNCHANGED <<wvars, avars, kvars, evars, rvars, svars, nvars>>

AutoStarts(on) ==
    IF on THEN {AutoState("start", {Entry(Root, FALSE)} \cup entries, trap_dir, env) :
                   entries \in SUBSET RootEntries, trap_dir \in BOOLEAN, env \in Envs}
    ELSE {AutoOff}

(***************************************************************************)
(* Reading the serialized text back: which lines are declarations, which   *)
(* are tuples, and what a declaration declares.                            *)
(***************************************************************************)
\* the position of the first "=" of a line, 0 when it has none
EqPos(line) ==
    IF \E i \in DOMAIN line : line[i] = "="
    THEN CHOOSE i \in DOMAIN line : line[i] = "=" /\ \A j \in 1..(i - 1) : line[j] # "="
    ELSE 0

\* a line "#<digits>=*" or "#<digits>=@..."
IsDeclLine(line) ==
    /\ Len(line) >= 4
    /\ line[1] = "#"
    /\ LET p == EqPos(line)
       IN  /\ p > 2
           /\ p < Len(line)
           /\ \A j \in 2..(p - 1) : IsDecDigit(line[j])
           /\ \/ SubSeq(line, p + 1, Len(line)) = <<"*">>
              \/ line[p + 1] = "@"

\* the label on the left of a declaration line
DeclaredLabel(line) == SubSeq(line, 1, EqPos(line) - 1)

\* the right-hand side of a declaration line: "*" or the key
DeclaredKey(line) == SubSeq(line, EqPos(line) + 1, Len(line))

IsKeyDeclLine(line) == IsDeclLine(line) /\ line[EqPos(line) + 1] = "@"

\* a line "table(...)": a name, then the values in parentheses
IsTupleLine(line) ==
    /\ Len(line) >= 3
    /\ line[1] \notin {"#", "// ", "("}
    /\ \E i \in DOMAIN line : line[i] = "("
    /\ line[Len(line)] = ")"

DeclLines(out) == SelectSeq(out, IsDeclLine)
TupleLines(out) == SelectSeq(out, IsTupleLine)

IsPrefix(s, t) == Len(s) <= Len(t) /\ SubSeq(t, 1, Len(s)) = s

\* the labels a tuple references
LabelsOf(e) == {e.values[i].label : i \in {j \in DOMAIN e.values : e.values[j].tag = "Label"}}

(***************************************************************************)
(* C1: the text of format() is the header comment, then the declarations   *)
(* in the order the labels were first declared, then the tuples in the     *)
(* order they were emitted; no declaration line follows a tuple line.      *)
(* Stated as: the layout holds in every state, and every operation only    *)
(* appends to the declaration lines and to the tuple lines of the text.    *)
(***************************************************************************)
C1_Layout ==
    LET out == format(writer)
        D == {i \in DOMAIN out : IsDeclLine(out[i])}
        T == {i \in DOMAIN out : IsTupleLine(out[i])}
    IN  /\ out[1] = HeaderLine
        /\ \A i \in D : \A j \in T : i < j
        /\ {DeclaredLabel(out[i]) : i \in D} = returned
        /\ Cardinality(D) = Cardinality(returned)

C1_Step ==
    LET d1 == DeclLines(format(writer))
        d2 == DeclLines(format(writer'))
        t1 == TupleLines(format(writer))
        t2 == TupleLines(format(writer'))
    IN  /\ IsPrefix(d1, d2)
        /\ IsPrefix(t1, t2)
        /\ last'.op \in {"emit", "emit_file", "emit_folder", "emit_location"}
              => Len(t2) = Len(t1) + 1
        /\ last'.op \in {"fresh_label", "emit_location"}
              => d2 = Append(d1, last'.label \o <<"=", "*">>)

C1_FormatOrder == [](last.op # "off" => C1_Layout) /\ [][C1_Step]_vars

\* a comment, two tuples, and a declaration made after a tuple was emitted
C1_Witness ==
    /\ Len(writer.comments) = 1
    /\ Len(writer.entries) = 2
    /\ writer.entries[1].table = <<"t">>
    /\ Len(writer.label_defs) = 2
    /\ last.op = "emit_location"

(***************************************************************************)
(* C3: every identifier is declared exactly once: no numeric label is on   *)
(* the left of two declaration lines and no key is in two key              *)
(* declarations; declaring an already declared fresh label again changes   *)
(* neither the declarations nor the tuples.                                *)
(***************************************************************************)
C3_Once ==
    LET decls == DeclLines(format(writer))
    IN  \A i, j \in DOMAIN decls :
            i # j => /\ DeclaredLabel(decls[i]) # DeclaredLabel(decls[j])
                     /\ IsKeyDeclLine(decls[i]) /\ IsKeyDeclLine(decls[j])
                           => DeclaredKey(decls[i]) # DeclaredKey(decls[j])

C3_Step ==
    last'.op = "define_fresh_label"
        => /\ writer'.label_defs = writer.label_defs
           /\ writer'.entries = writer.entries
           /\ format(writer') = format(writer)

C3_DeclaredOnce == []C3_Once /\ [][C3_Step]_vars

\* a fresh label declared again while a key declaration is also present
C3_Witness ==
    /\ last.op = "define_fresh_label"
    /\ Len(writer.label_defs) = 2
    /\ \E i \in DOMAIN writer.label_defs : writer.label_defs[i].tag = "Key"
    /\ \E i \in DOMAIN writer.label_defs : writer.label_defs[i] = LabelDef_Fresh(last.arg)

(***************************************************************************)
(* C4: define_key_label for a content: the first call allocates one fresh  *)
(* numeric label, appends one key declaration binding it to the content    *)
(* and caches it; a later call with equal content returns the same label,  *)
(* appends no declaration and leaves the counter alone.                    *)
(***************************************************************************)
\* the step runs define_key_label on the key of last'.arg
CallsDefineKeyLabel ==
    \/ last'.op \in {"emit_file", "emit_folder"}
    \/ last'.op = "string_label" /\ last'.arg \notin DOMAIN writer.string_cache

KeyDeclsOf(w, key) ==
    {i \in DOMAIN w.label_defs : w.label_defs[i].tag = "Key" /\ w.label_defs[i].key = key}

C4_Step ==
    CallsDefineKeyLabel =>
        LET key == Label_key(last'.arg)
            before == KeyDeclsOf(writer, key)
        IN  IF before = {}
            THEN /\ writer'.labels.counter = writer.labels.counter + 1
                 /\ last'.label \notin returned
                 /\ writer'.label_defs =
                        Append(writer.label_defs, LabelDef_Key(last'.label, key))
                 /\ key \in DOMAIN writer'.string_cache
                 /\ writer'.string_cache[key] = last'.label
            ELSE /\ writer'.labels.counter = writer.labels.counter
                 /\ writer'.label_defs = writer.label_defs
                 /\ \A i \in before : writer.label_defs[i].numeric = last'.label
                 /\ writer'.string_cache = writer.string_cache

RowsOf(w, table, path) ==
    {i \in DOMAIN w.entries :
        /\ w.entries[i].table = table
        /\ w.entries[i].values[2] = V_String(path)}

C5_KeyLabelDedup ==
    \A c \in WContents :
        /\ Cardinality(KeyDeclsOf(writer, Label_key(c))) <= 1
        /\ Cardinality(RowsOf(writer, <<"files">>, c)) <= 1
        /\ Cardinality(RowsOf(writer, <<"folders">>, c)) <= 1

(***************************************************************************)
(* C6: fresh() never returns a label twice: the labels are #(10000+k),     *)
(* k = 0, 1, 2, ..., none below 10000, increasing in each caller's order,  *)
(* also when several threads call fresh() on the same allocator.           *)
(***************************************************************************)
RECURSIVE ParseDecimal(_)
ParseDecimal(s) ==
    IF s = <<>> THEN 0
    ELSE 10 * ParseDecimal(SubSeq(s, 1, Len(s) - 1))
         + (CHOOSE d \in 0..9 : DecDigit(d) = s[Len(s)])

IsNumericLabel(l) ==
    /\ Len(l) >= 2
    /\ l[1] = "#"
    /\ \A i \in 2..Len(l) : IsDecDigit(l[i])

LabelNumber(l) == ParseDecimal(Tail(l))

C6_FreshNeverRepeats ==
    /\ \A i, j \in DOMAIN issued : i # j => issued[i].label # issued[j].label
    /\ \A i \in DOMAIN issued :
          /\ IsNumericLabel(issued[i].label)
          /\ LabelNumber(issued[i].label) >= 10000
    /\ {LabelNumber(issued[i].label) : i \in DOMAIN issued}
          \cup {10000 + thr[t].id : t \in {u \in Threads : thr[u].pc = "fetched"}}
       = {10000 + k : k \in 0..(gen.counter - 1)}
    /\ Cardinality({t \in Threads : thr[t].pc = "fetched"}) + Len(issued) = gen.counter
    /\ \A i, j \in DOMAIN issued :
          i < j /\ issued[i].t = issued[j].t
             => LabelNumber(issued[i].label) < LabelNumber(issued[j].label)

\* two threads, three labels, and a later fetch returned first
C6_Witness ==
    /\ Len(issued) = 3
    /\ {issued[i].t : i \in DOMAIN issued} = {1, 2}
    /\ LabelNumber(issued[1].label) > LabelNumber(issued[2].label)

(***************************************************************************)
(* C7: key(content) depends on the content only: it leaves the allocator   *)
(* unchanged, gives equal labels for equal contents, and gives equal       *)
(* labels only for equal contents.                                         *)
(***************************************************************************)
C7_KeyPure ==
    /\ keys.pc >= 0 => keys.gen = LabelGenerator_new
    /\ keys.pc = 2 => (keys.k1 = keys.k2 <=> keys.c1 = keys.c2)

\* two different contents of the same length, each with an escaped character
C7_Witness ==
    /\ keys.pc = 2
    /\ keys.c1 = <<BACKSLASH, "n">>
    /\ keys.c2 = <<NEWLINE>>
    /\ keys.k1 # keys.k2

(***************************************************************************)
(* C2: every label a tuple line of the serialized text references has a    *)
(* declaration line earlier in that text.  It holds for the text of a      *)
(* writer whose tuples reference only labels the writer returned, and for  *)
(* the text of every extractor whose extract succeeded.                    *)
(***************************************************************************)
\* the end of the run of decimal digits that starts at position i
DigitsEnd(line, i) ==
    IF \E j \in i..Len(line) : ~IsDecDigit(line[j])
    THEN (CHOOSE j \in i..Len(line) :
             ~IsDecDigit(line[j]) /\ \A k \in i..(j - 1) : IsDecDigit(line[k])) - 1
    ELSE Len(line)

RECURSIVE RefsFrom(_, _, _)
\* the labels "#<digits>" of a tuple line from position i on, outside its
\* quoted strings
RefsFrom(line, i, inString) ==
    IF i > Len(line) THEN {}
    ELSE IF line[i] = QUOTE THEN RefsFrom(line, i + 1, ~inString)
    ELSE IF ~inString /\ line[i] = "#"
    THEN {SubSeq(line, i, DigitsEnd(line, i + 1))} \cup RefsFrom(line, i + 1, inString)
    ELSE RefsFrom(line, i + 1, inString)

DeclaredBeforeUse(out) ==
    \A k \in DOMAIN out :
        IsTupleLine(out[k])
            => \A l \in RefsFrom(out[k], 1, FALSE) :
                  \E j \in 1..(k - 1) : IsDeclLine(out[j]) /\ DeclaredLabel(out[j]) = l

C2_DeclBeforeUse ==
    /\ last.op # "off" => DeclaredBeforeUse(format(writer))
    /\ \A e \in Extractors :
          ext[e].phase = "ok" => DeclaredBeforeUse(format(ext[e].trap))

\* a finished extraction of a tree of three nodes under two folders: its
\* text declares ten labels and has a field tuple that references two
C2_Witness ==
    \E e \in Extractors :
        /\ ext[e].phase = "ok"
        /\ job[e].tree = Tree_nested
        /\ LET out == format(ext[e].trap)
           IN  /\ Cardinality({k \in DOMAIN out : IsDeclLine(out[k])}) = 10
               /\ \E k \in DOMAIN out :
                     /\ IsTupleLine(out[k])
                     /\ IsPrefix(<<"solidity_", "source_file", "_", "body">>, out[k])
                     /\ Cardinality(RefsFrom(out[k], 1, FALSE)) = 2

(***************************************************************************)
(* C8: two extractors given the same file path and the same syntax tree    *)
(* end with the same declarations in the same order and the same tuples in *)
(* the same order, so the same serialized text, however their steps         *)
(* interleave with each other.                                             *)
(***************************************************************************)
C8_Deterministic ==
    (ext[1].phase = "ok" /\ ext[2].phase = "ok" /\ job[1] = job[2])
        => /\ ext[1].trap.label_defs = ext[2].trap.label_defs
           /\ ext[1].trap.entries = ext[2].trap.entries
           /\ format(ext[1].trap) = format(ext[2].trap)

\* both extractions of the same statement under two folders have finished
C8_Witness ==
    /\ ext[1].phase = "ok"
    /\ ext[2].phase = "ok"
    /\ job[1] = job[2]
    /\ job[1].tree = Tree_stmt
    /\ job[1].path = <<"/", "x", "/", "y", "/", "Z.sol">>
    /\ Len(ext[2].trap.entries) >= 15

(***************************************************************************)
(* C9: on the final tally of N files with F failures, run returns an error *)
(* exactly when F >= 1 and (F = N or F > floor(N/2)): 3 of 10 failing      *)
(* succeeds, 6 of 10 fails, 10 of 10 fails, 5 of 10 succeeds with a        *)
(* warning.                                                                *)
(***************************************************************************)
Failures(results) == Cardinality({i \in DOMAIN results : results[i] = "Err"})

C9_PartialFailurePolicy ==
    (run.pc = "done" /\ run.setup = "ok")
        => LET N == Len(run.files)
               F == Failures(run.results)
           IN  /\ run.ret \in {"Ok", "Err"}
               /\ run.ret = "Err" <=> (F >= 1 /\ (F = N \/ F > N \div 2))
               /\ (N = 10 /\ F = 3) => run.ret = "Ok"
               /\ (N = 10 /\ F = 6) => run.ret = "Err"
               /\ (N = 10 /\ F = 10) => run.ret = "Err"
               /\ (N = 10 /\ F = 5) => (run.ret = "Ok" /\ run.msg = "warn")

\* exactly half of ten files failed, and the run succeeded with a warning
C9_Witness ==
    /\ run.pc = "done"
    /\ Len(run.files) = 10
    /\ Failures(run.results) = 5
    /\ run.ret = "Ok"
    /\ run.msg = "warn"

(***************************************************************************)
(* C10: once the output directories exist, each file of the list is        *)
(* attempted exactly once and gives exactly one result; success_count +    *)
(* error_count is the number of files; and run has no result while a file  *)
(* is still to be attempted or is being processed.                         *)
(***************************************************************************)
DirsCreated == run.setup \in {"ok", "file_list_err"}

FieldPositions(node, field_name) ==
    SelectSeq([i \in DOMAIN node.children |-> i],
              LAMBDA i : node.fields[i] = field_name)

FieldTable(node, field_name) ==
    <<"solidity_">> \o normalize_kind(node.kind) \o <<"_", field_name>>

\* the tuples of a table whose first value is the label, in emission order
RowsAbout(w, table, label) ==
    SelectSeq(w.entries, LAMBDA t : t.table = table /\ t.values[1] = V_Label(label))

\* a tuple (label, number, label)
IsFieldShaped(t) ==
    /\ Len(t.values) = 3
    /\ t.values[1].tag = "Label"
    /\ t.values[2].tag = "UInt"
    /\ t.values[3].tag = "Label"

FieldIndicesRestart(x, tree) ==
    /\ \A n \in DOMAIN tree :
          \A field_name \in {tree[n].fields[i] : i \in DOMAIN tree[n].fields} \ {""} :
              LET at == FieldPositions(tree[n], field_name)
                  rows == RowsAbout(x.trap, FieldTable(tree[n], field_name), x.node_label[n])
              IN  /\ Len(rows) = Len(at)
                  /\ \A k \in DOMAIN at :
                        rows[k].values =
                            <<V_Label(x.node_label[n]), V_UInt(k - 1),
                              V_Label(x.node_label[tree[n].children[at[k]]])>>
    /\ \A i, j \in DOMAIN x.trap.entries :
          (/\ i # j
           /\ IsFieldShaped(x.trap.entries[i])
           /\ x.trap.entries[i].table = x.trap.entries[j].table)
              => SubSeq(x.trap.entries[i].values, 1, 2)
                     # SubSeq(x.trap.entries[j].values, 1, 2)

C12_FieldIndicesRestart ==
    \A e \in Extractors :
        ext[e].phase = "ok" => FieldIndicesRestart(ext[e], job[e].tree)

\* fields a and b interleaved: a holds the first and fourth child, with
\* indices 0 and 1, and b holds the third and fifth, with indices 0 and 1
C12_Witness ==
    /\ ext[1].phase = "ok"
    /\ job[1].tree = Tree_fields
    /\ LET a == RowsAbout(ext[1].trap, <<"solidity_", "source_file", "_", "a">>,
                          ext[1].node_label[1])
           b == RowsAbout(ext[1].trap, <<"solidity_", "source_file", "_", "b">>,
                          ext[1].node_label[1])
       IN  /\ Len(a) = 2
           /\ a[2].values[2] = V_UInt(1)
           /\ a[2].values[3] = V_Label(ext[1].node_label[5])
           /\ Len(b) = 2
           /\ b[1].values[2] = V_UInt(0)
           /\ b[1].values[3] = V_Label(ext[1].node_label[4])

(***************************************************************************)
(* C13: extracting /x/y/Z.sol declares the folders /x and /x/y once each   *)
(* and gives each one folders row, makes /x the containerparent of /x/y    *)
(* and /x/y the containerparent of the file, and emits the folders from    *)
(* the root towards the parent of the file.                                *)
(***************************************************************************)
Path_xyZ == <<"/", "x", "/", "y", "/", "Z.sol">>
Folder_x == <<"/", "x">>
Folder_xy == <<"/", "x", "/", "y">>

HasRow(w, table, values) ==
    \E i \in DOMAIN w.entries :
        w.entries[i].table = table /\ w.entries[i].values = values

FolderChain(x) ==
    LET w == x.trap
        lx == w.string_cache[Label_key(Folder_x)]
        lxy == w.string_cache[Label_key(Folder_xy)]
    IN  /\ Cardinality(KeyDeclsOf(w, Label_key(Folder_x))) = 1
        /\ Cardinality(KeyDeclsOf(w, Label_key(Folder_xy))) = 1
        /\ Cardinality(RowsOf(w, <<"folders">>, Folder_x)) = 1
        /\ Cardinality(RowsOf(w, <<"folders">>, Folder_xy)) = 1
        /\ HasRow(w, <<"folders">>, <<V_Label(lx), V_String(Folder_x)>>)
        /\ HasRow(w, <<"folders">>, <<V_Label(lxy), V_String(Folder_xy)>>)
        /\ HasRow(w, <<"containerparent">>, <<V_Label(lx), V_Label(lxy)>>)
        /\ HasRow(w, <<"containerparent">>, <<V_Label(lxy), V_Label(x.file_label.v)>>)
        /\ \A i \in RowsOf(w, <<"folders">>, Folder_x) :
              \A j \in RowsOf(w, <<"folders">>, Folder_xy) :
                  /\ i < j
                  /\ \A k \in DOMAIN w.entries : w.entries[k].table = <<"folders">> => k <= j

C13_FolderChain ==
    \A e \in Extractors :
        (ext[e].phase = "ok" /\ job[e].path = Path_xyZ) => FolderChain(ext[e])

\* /x/y/Z.sol was extracted: four keyed declarations (the file and three
\* folders) and three containerparent tuples
C13_Witness ==
    /\ ext[2].phase = "ok"
    /\ job[2].path = Path_xyZ
    /\ Cardinality({i \in DOMAIN ext[2].trap.label_defs :
                       ext[2].trap.label_defs[i].tag = "Key"}) = 4
    /\ Cardinality({i \in DOMAIN ext[2].trap.entries :
                       ext[2].trap.entries[i].table = <<"containerparent">>}) = 3

(***************************************************************************)
(* C14: after a successful extract of any path the file has exactly one    *)
(* containerparent edge to a parent folder, every emitted folder except    *)
(* the root of the chain has exactly one, and the root of the chain has    *)
(* none.                                                                   *)
(***************************************************************************)
\* the containerparent tuples whose child is the label
ParentEdges(w, child) ==
    {i \in DOMAIN w.entries :
        /\ w.entries[i].table = <<"containerparent">>
        /\ w.entries[i].values[2] = V_Label(child)}

FolderRows(w) == SelectSeq(w.entries, LAMBDA t : t.table = <<"folders">>)

ParentEdgesOk(x) ==
    LET w == x.trap
        rows == FolderRows(w)
    IN  /\ Cardinality(ParentEdges(w, x.file_label.v)) = 1
        /\ \A k \in DOMAIN rows :
              Cardinality(ParentEdges(w, rows[k].values[1].label))
                  = IF k = 1 THEN 0 ELSE 1

C14_ParentEdges ==
    \A e \in Extractors : ext[e].phase = "ok" => ParentEdgesOk(ext[e])

(***************************************************************************)
(* C20: every node of the tree, the root and the anonymous ones included,  *)
(* gets one fresh label of its own, exactly one kind-marker tuple and      *)
(* exactly one solidity_ast_node_info tuple with the parser's kind id; the *)
(* kind-marker table is solidity_<normalized kind>_def for a named node    *)
(* and solidity_token_def for an anonymous one.                            *)
(***************************************************************************)
\* the tuples (label) of one value: the kind markers
MarkersOf(w, label) ==
    {i \in DOMAIN w.entries : w.entries[i].values = <<V_Label(label)>>}

KindMarkerTable(node) ==
    IF node.named THEN <<"solidity_">> \o normalize_kind(node.kind) \o <<"_def">>
    ELSE <<"solidity_token_def">>

InfoRowsOf(w, label) ==
    {i \in DOMAIN w.entries :
        /\ w.entries[i].table = <<"solidity_ast_node_info">>
        /\ w.entries[i].values[1] = V_Label(label)}

FreshDeclsOf(w, label) ==
    {i \in DOMAIN w.label_defs : w.label_defs[i] = LabelDef_Fresh(label)}

OneMarkerPerNode(x, tree) ==
    /\ DOMAIN x.node_label = DOMAIN tree
    /\ \A n, m \in DOMAIN tree : n # m => x.node_label[n] # x.node_label[m]
    /\ \A n \in DOMAIN tree :
          LET l == x.node_label[n]
          IN  /\ Cardinality(FreshDeclsOf(x.trap, l)) = 1
              /\ Cardinality(MarkersOf(x.trap, l)) = 1
              /\ \A i \in MarkersOf(x.trap, l) :
                    x.trap.entries[i].table = KindMarkerTable(tree[n])
              /\ Cardinality(InfoRowsOf(x.trap, l)) = 1
              /\ \A i \in InfoRowsOf(x.trap, l) :
                    x.trap.entries[i].values = <<V_Label(l), V_UInt(tree[n].kind_id)>>
    /\ Cardinality({i \in DOMAIN x.trap.entries : Len(x.trap.entries[i].values) = 1})
          = Len(tree)
    /\ Cardinality({i \in DOMAIN x.trap.entries :
                       x.trap.entries[i].table = <<"solidity_ast_node_info">>})
          = Len(tree)

C20_OneMarkerPerNode ==
    \A e \in Extractors :
        ext[e].phase = "ok" => OneMarkerPerNode(ext[e], job[e].tree)

\* a named root, a named child and an anonymous ";" were extracted: the
\* token has its marker in solidity_token_def and its kind id 3
C20_Witness ==
    /\ ext[1].phase = "ok"
    /\ job[1].tree = Tree_stmt
    /\ HasRow(ext[1].trap, <<"solidity_token_def">>, <<V_Label(ext[1].node_label[3])>>)
    /\ HasRow(ext[1].trap, <<"solidity_", "identifier", "_def">>,
              <<V_Label(ext[1].node_label[2])>>)
    /\ HasRow(ext[1].trap, <<"solidity_ast_node_info">>,
              <<V_Label(ext[1].node_label[3]), V_UInt(3)>>)

(***************************************************************************)
(* C15: the escaping of string values is injective and has a decoder:      *)
(* decoding the escaped form gives the string back, no other string has    *)
(* the same escaped form, and the escaped form has no raw newline and no   *)
(* quote that is not doubled.                                              *)
(***************************************************************************)
RECURSIVE QuotesDoubled(_)
\* every quote of the text is followed by a quote that pairs with it
QuotesDoubled(e) ==
    IF e = <<>> THEN TRUE
    ELSE IF Head(e) = QUOTE
    THEN Len(e) >= 2 /\ e[2] = QUOTE /\ QuotesDoubled(SubSeq(e, 3, Len(e)))
    ELSE QuotesDoubled(Tail(e))

C15_EscapeRoundTrip ==
    /\ esc.pc >= 1 =>
          /\ \A t \in EscStrings : TrapValue_escape_string(t) = esc.e => t = esc.s
          /\ \A i \in DOMAIN esc.e : esc.e[i] # NEWLINE
          /\ QuotesDoubled(esc.e)
    /\ esc.pc = 2 => esc.d = esc.s

\* a quote, a backslash and a newline were escaped and decoded back
C15_Witness ==
    /\ esc.pc = 2
    /\ esc.s = <<QUOTE, BACKSLASH, NEWLINE>>
    /\ esc.e = <<QUOTE, QUOTE, BACKSLASH, BACKSLASH, BACKSLASH, "n">>
    /\ esc.d = esc.s

(***************************************************************************)
(* C11: when the parser does not accept the grammar, the run never reports *)
(* success, whatever the file list, and once a file has failed for that    *)
(* reason no further file is attempted.                                    *)
(***************************************************************************)
C11_NeverSuccess ==
    (run.pc # "off" /\ ~run.env.language_ok) => run.ret # "Ok"

C11_NoFurtherAttempt ==
    (\E i \in DOMAIN run.proc : run.proc[i].err = "set_language_err")
        => \A j \in DOMAIN run.proc :
              j \in DOMAIN run'.proc /\ run'.proc[j].attempts = run.proc[j].attempts

C11_GrammarFatal == []C11_NeverSuccess /\ [][C11_NoFurtherAttempt]_vars

(***************************************************************************)
(* C16: for every file processed successfully the TRAP file is at the path *)
(* compute_trap_path returns: trap_dir / the first two hexadecimal         *)
(* characters of h / h and the compression extension, h being the          *)
(* hexadecimal rendering of the first 8 bytes of the hash of the path,     *)
(* and the extension .trap.gz for gzip and .trap for none.                 *)
(***************************************************************************)
ExpectedTrapPath(u) ==
    LET h == LowerHex(Sha256_first8(u.canonical))
    IN  TrapDir \o <<"/", h[1], h[2], "/">> \o h
        \o (IF run.env.compression = "Gzip" THEN <<".", "trap", ".", "gz">>
            ELSE <<".", "trap">>)

C16_TrapPath ==
    \A i \in DOMAIN run.proc :
        run.proc[i].pc = "Ok"
            => /\ run.proc[i].trap = ExpectedTrapPath(run.proc[i])
               /\ run.proc[i].trap
                     = compute_trap_path(TrapDir, run.proc[i].canonical, run.env.compression)

(***************************************************************************)
(* C17: for every file processed successfully the copy in the source       *)
(* archive is at the archive root joined with the absolute path of the     *)
(* file without its leading separator, so it lies under the archive root.  *)
(***************************************************************************)
\* the path is below the root: it continues the root and never steps up
LiesUnder(path, root) ==
    /\ IsPrefix(root \o <<"/">>, path)
    /\ \A k \in DOMAIN path : path[k] # ".."

C17_ArchivePath ==
    \A i \in DOMAIN run.proc :
        run.proc[i].pc = "Ok"
            => /\ run.proc[i].archive
                     = ArchiveDir \o <<"/">> \o Tail(canonicalize(run.files[i]))
               /\ LiesUnder(run.proc[i].archive, ArchiveDir)

(***************************************************************************)
(* C18: no two entries of the file list that are being processed at the    *)
(* same time write the same TRAP path or the same archive path, repeated   *)
(* entries and entries with one canonical path included.                   *)
(***************************************************************************)
\* the paths process_file writes for a unit whose source was read
TrapTarget(u) ==
    write_to_file(compute_trap_path(TrapDir, u.canonical, run.env.compression),
                  run.env.compression)

ArchiveTarget(u) == compute_archive_path(ArchiveDir, u.canonical)

C18_DistinctOutputs ==
    \A i, j \in DOMAIN run.proc :
        (i # j /\ run.proc[i].pc = "running" /\ run.proc[j].pc = "running")
            => /\ TrapTarget(run.proc[i]) # TrapTarget(run.proc[j])
               /\ ArchiveTarget(run.proc[i]) # ArchiveTarget(run.proc[j])

(***************************************************************************)
(* C19: when the TRAP directory or the source-archive directory cannot be  *)
(* created, run fails with no file of the list read or extracted and no    *)
(* artifact written; when a directory of one file cannot be created, only  *)
(* that file fails: the others are attempted and the run decides on the    *)
(* tally.                                                                  *)
(***************************************************************************)
C19_DirFailure ==
    /\ run.setup \in {"trap_dir_err", "archive_dir_err"}
          => /\ run.pc = "done"
             /\ run.ret = "Err"
             /\ run.files = <<>>
             /\ run.proc = <<>>
    /\ \A i \in DOMAIN run.proc :
          run.proc[i].err = "mkdir_err"
              => /\ run.proc[i].pc = "Err"
                 /\ run.proc[i].trap = <<>>
                 /\ run.proc[i].archive = <<>>
                 /\ run.pc = "map" => run.ret = "none"
                 /\ run.pc \in {"collected", "tallied", "done"}
                       => \A j \in DOMAIN run.proc :
                             run.proc[j].attempts = 1 /\ Finished(run.proc[j])
                 /\ run.pc = "done"
                       => run.ret = decide(Failures(run.results), Len(run.files)).ret

\* the source-archive directory could not be created: run failed with the
\* two files of its list untouched
C19_Witness ==
    /\ run.setup = "archive_dir_err"
    /\ run.file_list = <<OkLine(File_A), OkLine(File_B)>>
    /\ run.pc = "done"
    /\ run.ret = "Err"
    /\ run.proc = <<>>

(***************************************************************************)
(* C21: every node but the root has exactly one solidity_ast_node_parent   *)
(* tuple (child, parent, index): the parent is the label of the node it is *)
(* a child of, the index its 0-based position among all the children of    *)
(* that node, with or without a field; the root has none, and no (parent,  *)
(* index) pair occurs twice.                                               *)
(***************************************************************************)
ParentRows(w) ==
    {i \in DOMAIN w.entries : w.entries[i].table = <<"solidity_ast_node_parent">>}

ParentRowsOf(w, label) ==
    {i \in ParentRows(w) : w.entries[i].values[1] = V_Label(label)}

ParentTuples(x, tree) ==
    LET w == x.trap
    IN  /\ \A p \in DOMAIN tree : \A k \in DOMAIN tree[p].children :
              LET child == x.node_label[tree[p].children[k]]
              IN  /\ Cardinality(ParentRowsOf(w, child)) = 1
                  /\ \A i \in ParentRowsOf(w, child) :
                        w.entries[i].values =
                            <<V_Label(child), V_Label(x.node_label[p]), V_UInt(k - 1)>>
        /\ ParentRowsOf(w, x.node_label[1]) = {}
        /\ \A i, j \in ParentRows(w) :
              i # j => \/ w.entries[i].values[2] # w.entries[j].values[2]
                       \/ w.entries[i].values[3] # w.entries[j].values[3]
        /\ Cardinality(ParentRows(w)) = Len(tree) - 1

C21_ParentTuples ==
    \A e \in Extractors : ext[e].phase = "ok" => ParentTuples(ext[e], job[e].tree)

\* the fifth child of the root, the second of field b, has the index 4, and
\* the token without a field the index 1
C21_Witness ==
    /\ ext[1].phase = "ok"
    /\ job[1].tree = Tree_fields
    /\ HasRow(ext[1].trap, <<"solidity_ast_node_parent">>,
              <<V_Label(ext[1].node_label[6]), V_Label(ext[1].node_label[1]), V_UInt(4)>>)
    /\ HasRow(ext[1].trap, <<"solidity_ast_node_parent">>,
              <<V_Label(ext[1].node_label[3]), V_Label(ext[1].node_label[1]), V_UInt(1)>>)

(***************************************************************************)
(* C22: a node has a solidity_tokeninfo tuple (node, kind id, source text) *)
(* exactly when it has no child, named or anonymous; a node with a child   *)
(* has none and no node has two.                                           *)
(***************************************************************************)
TokenRows(w) ==
    {i \in DOMAIN w.entries : w.entries[i].table = <<"solidity_tokeninfo">>}

TokenRowsOf(w, label) ==
    {i \in TokenRows(w) : w.entries[i].values[1] = V_Label(label)}

Leaves(tree) == {n \in DOMAIN tree : tree[n].children = <<>>}

TokenInfoForLeaves(x, tree) ==
    LET w == x.trap
    IN  /\ \A n \in DOMAIN tree :
              LET l == x.node_label[n]
              IN  IF n \in Leaves(tree)
                  THEN /\ Cardinality(TokenRowsOf(w, l)) = 1
                       /\ \A i \in TokenRowsOf(w, l) :
                             w.entries[i].values =
                                <<V_Label(l), V_UInt(tree[n].kind_id), V_String(tree[n].text)>>
                  ELSE TokenRowsOf(w, l) = {}
        /\ Cardinality(TokenRows(w)) = Cardinality(Leaves(tree))

C22_TokenInfoForLeaves ==
    \A e \in Extractors : ext[e].phase = "ok" => TokenInfoForLeaves(ext[e], job[e].tree)

\* the block with one child has no tokeninfo tuple, its child has the one
\* with the text +=
C22_Witness ==
    /\ ext[1].phase = "ok"
    /\ job[1].tree = Tree_nested
    /\ TokenRowsOf(ext[1].trap, ext[1].node_label[2]) = {}
    /\ HasRow(ext[1].trap, <<"solidity_tokeninfo">>,
              <<V_Label(ext[1].node_label[3]), V_UInt(5), V_String(<<"+", "=">>)>>)

(***************************************************************************)
(* C23: node labels are handed out in pre-order, children in parse order:  *)
(* the number of a node is below that of every node of its subtree, the    *)
(* numbers of an earlier sibling's subtree are below those of a later      *)
(* sibling's, and the labels of the file and of the folders are all below  *)
(* that of the root.  It holds at every step of the walk for the nodes     *)
(* visited so far.                                                         *)
(***************************************************************************)
RECURSIVE Subtree(_, _)
Subtree(tree, n) ==
    {n} \cup UNION {Subtree(tree, tree[n].children[k]) : k \in DOMAIN tree[n].children}

PreOrder(x, tree) ==
    LET seen == DOMAIN x.node_label
        num(n) == LabelNumber(x.node_label[n])
    IN  /\ \A n \in seen : \A d \in (Subtree(tree, n) \cap seen) \ {n} : num(n) < num(d)
        /\ \A p \in seen : \A i, j \in DOMAIN tree[p].children :
              i < j => \A a \in Subtree(tree, tree[p].children[i]) \cap seen :
                          \A b \in Subtree(tree, tree[p].children[j]) \cap seen :
                             num(a) < num(b)
        /\ \A k \in DOMAIN x.trap.string_cache :
              /\ IsNumericLabel(x.trap.string_cache[k])
              /\ 1 \in seen => LabelNumber(x.trap.string_cache[k]) < num(1)
        /\ x.file_label.some /\ 1 \in seen => LabelNumber(x.file_label.v) < num(1)

C23_PreOrder ==
    \A e \in Extractors :
        ext[e].phase \in {"walk", "ok"} => PreOrder(ext[e], job[e].tree)

\* a file below two folders and a root with five children were extracted
C23_Witness ==
    /\ ext[1].phase = "ok"
    /\ job[1].tree = Tree_fields
    /\ job[1].path = Path_xyZ
    /\ Cardinality(DOMAIN ext[1].trap.string_cache) = 4
    /\ LabelNumber(ext[1].node_label[2]) < LabelNumber(ext[1].node_label[6])
    /\ LabelNumber(ext[1].file_label.v) < LabelNumber(ext[1].node_label[1])

(***************************************************************************)
(* C24: every node gets exactly one locations_default tuple with a fresh   *)
(* location label of its own, the label of the file, and the four          *)
(* coordinates each the parser's 0-based value plus one, so at least 1     *)
(* whatever the parser's value; and exactly one solidity_ast_node_location *)
(* tuple that links the node to that location.                             *)
(***************************************************************************)
NodeLocationRowsOf(w, label) ==
    {i \in DOMAIN w.entries :
        /\ w.entries[i].table = <<"solidity_ast_node_location">>
        /\ w.entries[i].values[1] = V_Label(label)}

LocationRowsOf(w, loc) ==
    {i \in DOMAIN w.entries :
        /\ w.entries[i].table = <<"locations_default">>
        /\ w.entries[i].values[1] = loc}

\* the locations_default tuple the node should have
ExpectedLocation(x, node, loc) ==
    <<loc, V_Label(x.file_label.v), V_UInt(node.start.row + 1),
      V_UInt(node.start.column + 1), V_UInt(node.end.row + 1), V_UInt(node.end.column + 1)>>

OneLocationPerNode(x, tree) ==
    LET w == x.trap
        TableCount(table) == Cardinality({i \in DOMAIN w.entries : w.entries[i].table = table})
    IN  /\ \A n \in DOMAIN tree :
              LET links == NodeLocationRowsOf(w, x.node_label[n])
              IN  /\ Cardinality(links) = 1
                  /\ \A i \in links :
                        LET loc == w.entries[i].values[2]
                        IN  /\ Cardinality(FreshDeclsOf(w, loc.label)) = 1
                            /\ \A m \in DOMAIN tree : x.node_label[m] # loc.label
                            /\ Cardinality(LocationRowsOf(w, loc)) = 1
                            /\ \A j \in LocationRowsOf(w, loc) :
                                  /\ w.entries[j].values = ExpectedLocation(x, tree[n], loc)
                                  /\ \A c \in 3..6 : w.entries[j].values[c].num >= 1
        /\ \A n, m \in DOMAIN tree :
              n # m => \A i \in NodeLocationRowsOf(w, x.node_label[n]) :
                          \A j \in NodeLocationRowsOf(w, x.node_label[m]) :
                             w.entries[i].values[2] # w.entries[j].values[2]
        /\ TableCount(<<"locations_default">>) = Len(tree)
        /\ TableCount(<<"solidity_ast_node_location">>) = Len(tree)

C24_Locations ==
    \A e \in Extractors : ext[e].phase = "ok" => OneLocationPerNode(ext[e], job[e].tree)

\* the same, for the trees whose coordinates are all below U32_MAX
C24_LocationsBelowMax ==
    \A e \in Extractors :
        (ext[e].phase = "ok" /\ job[e].tree # Tree_wide)
            => OneLocationPerNode(ext[e], job[e].tree)

(***************************************************************************)
(* C25: when the parser step fails (the language is not accepted, or no    *)
(* tree comes back) extract returns its error with nothing emitted: no     *)
(* declaration and no tuple; process_file then writes no TRAP file and no  *)
(* archive copy for that file, and neither failure touches another file.   *)
(***************************************************************************)
ParserErrors == {"set_language_err", "parse_err"}

C25_NothingEmitted ==
    /\ \A e \in Extractors :
          ext[e].phase = "err" =>
             /\ ext[e].trap.label_defs = <<>>
             /\ ext[e].trap.entries = <<>>
             /\ ext[e].trap = TrapWriter_new
             /\ ext[e].file_label = None
    /\ \A i \in DOMAIN run.proc :
          run.proc[i].err \in ParserErrors =>
             /\ run.proc[i].pc = "Err"
             /\ run.proc[i].trap = <<>>
             /\ run.proc[i].archive = <<>>

C25_OthersUnaffected ==
    /\ \A e \in Extractors :
          (ext[e].phase # "err" /\ ext'[e].phase = "err") => ext'[Other(e)] = ext[Other(e)]
    /\ \A i \in DOMAIN run.proc :
          (run.proc[i].err = "none" /\ run'.proc[i].err \in ParserErrors) =>
             \A j \in DOMAIN run.proc : j # i => run'.proc[j] = run.proc[j]

C25_ParserFailure == []C25_NothingEmitted /\ [][C25_OthersUnaffected]_vars

\* the parser gave no tree for /A, which left nothing behind, and /B was
\* extracted, written and copied
C25_Witness ==
    /\ run.files = <<File_A, File_B>>
    /\ run.proc[1].err = "parse_err"
    /\ run.proc[1].trap = <<>>
    /\ run.proc[2].pc = "Ok"
    /\ run.proc[2].trap # <<>>
    /\ run.proc[2].archive # <<>>

(***************************************************************************)
(* C26: the two escaping routines differ only in the double quote: the     *)
(* escaped form of a string value and the escaped form of the same content *)
(* in a key label are the same for every character but the quote, which is *)
(* two quotes in a string value and backslash-quote in a key label.        *)
(***************************************************************************)
\* the two routines agree on the character, up to the two forms of a quote
SameEscape(c) ==
    IF c = QUOTE
    THEN /\ TrapValue_escape_char(c) = <<QUOTE, QUOTE>>
         /\ Label_escape_char(c) = <<BACKSLASH, QUOTE>>
    ELSE TrapValue_escape_char(c) = Label_escape_char(c)

C26_DifferOnlyInQuote ==
    esc.pc >= 1 =>
        /\ \A i \in DOMAIN esc.s : SameEscape(esc.s[i])
        /\ (\A i \in DOMAIN esc.s : esc.s[i] # QUOTE) => esc.e = Label_escape_string(esc.s)

\* the same, for the strings without the character NUL
C26_DifferOnlyInQuoteAndNul ==
    (esc.pc >= 1 /\ \A i \in DOMAIN esc.s : esc.s[i] # NUL) =>
        /\ \A i \in DOMAIN esc.s : SameEscape(esc.s[i])
        /\ (\A i \in DOMAIN esc.s : esc.s[i] # QUOTE) => esc.e = Label_escape_string(esc.s)

(***************************************************************************)
(* C27: the schema and the emitted tuples agree on table names: for every  *)
(* kind and every field the table the extractor emits the field tuple into *)
(* is the table the schema generator declares for that kind and field, and *)
(* normalize_kind gives what the normalize_name of the schema generator    *)
(* and of the library generator give, on every input.                      *)
(***************************************************************************)
SameNormalization(name) ==
    /\ normalize_kind(name) = schema_normalize_name(name)
    /\ normalize_kind(name) = codegen_normalize_name(name)

C27_TableNamesAgree ==
    names.pc = 3 =>
        /\ names.emitted = names.declared
        /\ names.class = normalize_kind(names.kind)
        /\ SameNormalization(names.kind)
        /\ SameNormalization(names.field)

\* the three normalizations agree, and so do the table names for a field
\* name that its normalization leaves as it is
C27_AgreeOnNormalFields ==
    names.pc = 3 =>
        /\ names.class = normalize_kind(names.kind)
        /\ SameNormalization(names.kind)
        /\ SameNormalization(names.field)
        /\ schema_normalize_name(names.field) = names.field => names.emitted = names.declared

(***************************************************************************)
(* C28: over any sequence of string_label, emit_file and emit_folder calls *)
(* on one writer, two calls return the same numeric label exactly when     *)
(* their contents are equal; a content that is the text of the rendered    *)
(* key of an earlier content still gets a label and a declaration of its   *)
(* own.  Every earlier content is in the cache under its rendered key, so  *)
(* the step of each call is compared with the cache before the call.       *)
(***************************************************************************)
ContentOps == {"string_label", "emit_file", "emit_folder"}

\* the call of this step, with content c, returned l
ContentLabel(c, l) ==
    LET key == Label_key(c)
    IN  /\ key \in DOMAIN writer.string_cache => l = writer.string_cache[key]
        /\ \A k \in DOMAIN writer.string_cache :
              k # key => writer.string_cache[k] # l
        /\ key \notin DOMAIN writer.string_cache =>
              writer'.label_defs = Append(writer.label_defs, LabelDef_Key(l, key))

C28_Step ==
    (last' # last /\ last'.op \in ContentOps) => ContentLabel(last'.arg, last'.label)

C28_LabelPerContent == [][C28_Step]_vars

\* the same, for the calls whose content is not the text of a cached key
C28_StepNoKeyText ==
    (last' # last /\ last'.op \in ContentOps /\ last'.arg \notin DOMAIN writer.string_cache)
        => ContentLabel(last'.arg, last'.label)

C28_LabelPerOtherContent == [][C28_StepNoKeyText]_vars

(***************************************************************************)
(* C29: a file counted as failed leaves nothing behind: when process_file  *)
(* returns an error, whatever the step that failed, no TRAP file has been  *)
(* written for that file; every TRAP file belongs to a file that succeeded *)
(* and has its archive copy.                                               *)
(***************************************************************************)
C29_FailedLeavesNothing ==
    \A i \in DOMAIN run.proc :
        /\ run.proc[i].pc = "Err" => run.proc[i].trap = <<>>
        /\ run.proc[i].trap # <<>> => (run.proc[i].pc = "Ok" /\ run.proc[i].archive # <<>>)

\* the same, for the failures before the TRAP file is created
C29_EarlyFailureLeavesNothing ==
    \A i \in DOMAIN run.proc :
        /\ (run.proc[i].pc = "Err" /\ run.proc[i].err \notin {"write_err", "copy_err"})
              => (run.proc[i].trap = <<>> /\ run.proc[i].archive = <<>>)
        /\ run.proc[i].pc = "Ok" => (run.proc[i].trap # <<>> /\ run.proc[i].archive # <<>>)

(***************************************************************************)
(* C30: autobuild never writes into the TRAP directory before the          *)
(* directory is ensured to exist: with a Solidity file found and no TRAP   *)
(* directory, autobuild still creates the directory, writes its file list  *)
(* and runs the extraction; with no Solidity file found, the files under   *)
(* node_modules, .git and cache left out, it returns success and creates   *)
(* nothing.                                                                *)
(***************************************************************************)
\* with no file found autobuild succeeded and created nothing; the files it
\* found are the Solidity files outside the excluded directories
AutoFindsAndSkips ==
    /\ (auto.pc = "done" /\ auto.files = <<>>) =>
          /\ auto.ret = "Ok"
          /\ auto.trap_dir = auto.dir0
          /\ ~auto.archive_dir
          /\ auto.file_list = None
          /\ run = RunOff
    /\ auto.pc \notin {"off", "start"} =>
          {auto.files[i] : i \in DOMAIN auto.files} =
             {Sol_A, Sol_F} \cap {en.path : en \in auto.entries}
    /\ (auto.pc = "done" /\ auto.files # <<>> /\ auto.err = "none") =>
          /\ run.pc = "done"
          /\ auto.ret = run.ret

\* no input or output error apart, the file list is written and the
\* extraction run also when the TRAP directory did not exist
AutoEnsuresTrapDir ==
    (auto.pc \in {"listed", "running", "done"} /\ auto.files # <<>> /\ ~auto.dir0
       /\ auto.err # "io")
        => /\ auto.trap_dir
           /\ auto.file_list # None
           /\ run.pc # "off"

C30_AutobuildTrapDir == AutoFindsAndSkips /\ AutoEnsuresTrapDir

\* the part that does not depend on the TRAP directory
C30_AutobuildFindsAndSkips == AutoFindsAndSkips

(***************************************************************************)
(* The specifications.                                                     *)
(***************************************************************************)
\* The state after construction.  Each specification runs one component
\* ("writer", "alloc", "key", "escape", "extract", "run", "tally"); the others are off
\* and never move.
Start(component) ==
    /\ writer = TrapWriter_new
    /\ returned = {}
    /\ last = IF component = "writer" THEN Op("new", <<>>, <<>>, 0) ELSE WriterOff
    /\ gen = LabelGenerator_new
    /\ thr = [t \in Threads |->
                [pc |-> IF component = "alloc" THEN "idle" ELSE "off", id |-> 0]]
    /\ issued = <<>>
    /\ keys \in [pc : {IF component = "key" THEN 0 ELSE -1},
                 gen : {LabelGenerator_new},
                 c1 : KeyInputs(component = "key"),
                 c2 : KeyInputs(component = "key"),
                 k1 : {<<>>}, k2 : {<<>>}]
    /\ job \in [Extractors -> Jobs(component = "extract")]
    /\ ext = [e \in Extractors |->
                NoExtractor(IF component = "extract" THEN "none" ELSE "off")]
    /\ run \in RunStarts(component)
    /\ esc \in EscStarts(component = "escape")
    /\ names \in NameStarts(component = "names")
    /\ auto \in AutoStarts(component = "auto")

SpecWriter == Start("writer") /\ [][NextWriter]_vars

SpecAlloc == Start("alloc") /\ [][NextAlloc]_vars

SpecKey == Start("key") /\ [][NextKey]_vars

SpecEscape == Start("escape") /\ [][NextEscape]_vars

SpecExtract == Start("extract") /\ [][NextExtract]_vars

SpecRun == Start("run") /\ [][NextRun]_vars

SpecTally == Start("tally") /\ [][NextTally]_vars

\* a writer driven directly, or extractors driving their writers
SpecAuto == Start("auto") /\ [][NextAuto]_vars
SpecNames == Start("names") /\ [][NextNames]_vars
SpecParse ==
    (\E component \in {"extract", "run"} : Start(component)) /\ [][NextExtract \/ NextRun]_vars
SpecDeclUse ==
    (\E component \in {"writer", "extract"} : Start(component))
    /\ [][NextWriter \/ NextExtract]_vars

====
